---- MODULE Spec2Model ----
(***************************************************************************)
(* A model of the particle simulation: the rounding helper, the capture    *)
(* module's row layout, the frame pacer and the orchestrator's event loop  *)
(* (src/src/main.rs).                                                      *)
(*                                                                         *)
(* Numbers.  A u32 is a pair <<hi, lo>> of 16-bit limbs (TLC's integers    *)
(* stop at 2^31 - 1), so that the addition in multiple_of keeps its 32-bit *)
(* width.  Times are integers in units of 10 nanoseconds (1e-8 s).         *)
(***************************************************************************)
EXTENDS Integers, Sequences, FiniteSets, TLC

\* ------------------------------------------------------------ constants

\* main.rs:30  pub const PARTICLES_PER_WORKGROUP: u32 = 256
PARTICLES_PER_WORKGROUP == 256
\* wgpu::COPY_BYTES_PER_ROW_ALIGNMENT, as used at capture.rs:25
COPY_BYTES_PER_ROW_ALIGNMENT == 256
\* particle.rs:20  particles per cluster ("/ 128", "0..128")
CLUSTER_SIZE == 128
\* one limb of a u32
LIMB == 65536
\* framepace.rs:30  const ACCURACY: f32 = 0.0001, in units of 1e-8 s
ACCURACY == 10000
\* f32::EPSILON = 1.1920929e-7 s lies between 11 and 12 units of 1e-8 s:
\* a whole number of units is greater than it iff it is greater than 11
F32_EPSILON_UNITS == 11
\* one second, in units of 1e-8 s
SECOND == 100000000
\* the magnitude that stands for an infinite f32: beyond every time of the model
F32_HUGE == 2000000000

\* ------------------------------------------------------------ bounds

\* the small values the rounding helper is tried on are 0..MaxSmallValue
MaxSmallValue == 9
\* capture textures are 1..MaxWidth wide (plus the widths of WideWidths)
MaxWidth == 3
\* and 1..MaxHeight high
MaxHeight == 3
\* the pacer is followed for MaxFrames frames
MaxFrames == 2
\* with at most MaxDelays delays between and inside them
MaxDelays == 3
\* the event loop is followed for MaxTicks idle ticks
MaxTicks == 2
\* the generator is run for 0..MaxClusters clusters
MaxClusters == 3
\* at most MaxGuiEvents events wait in the GUI layer's input queue
MaxGuiEvents == 3
\* and at most MaxWheels mouse-wheel events are followed
MaxWheels == 1
\* at most MaxPointerEvents mouse-button and cursor events are followed
MaxPointerEvents == 3
\* the camera is followed for MaxCameraTicks idle ticks
MaxCameraTicks == 1

VARIABLES
    overflow_checks,   \* the build: TRUE = overflow panics (debug), FALSE = it wraps
    calc,              \* the last call of a pure function: its inputs and result
    \* --- Framepacer (framepace.rs:3-6) and the clock
    now,               \* Instant::now()
    instants,          \* Framepacer.instants: [0..1 -> time]
    pacer_current,     \* Framepacer.current
    in_frame,          \* history: begin_frame was called and end_frame not yet
    frame_begin,       \* history: when the latest begin_frame was called
    frames,            \* history: the number of begin_frame calls
    delays,            \* history: the number of delays taken
    last_end,          \* history: the latest end_frame call
    \* --- the orchestrator (main.rs)
    crashed,           \* the process has panicked
    is_paused,         \* app_state.is_paused
    step,              \* app_state.step
    framerate,         \* app_state.framerate
    num_particles,     \* num_particles
    new_num_particles, \* new_num_particles (a u32 in limbs: the GUI accepts any)
    capacity,          \* PhysicsModule.particle_count: the buffers' capacity
    alloc,             \* which allocation of the buffer pair the physics module owns
    current,           \* PhysicsModule.current
    particle_buffers,  \* PhysicsModule.particle_buffers: [0..1 -> [0..capacity-1 -> particle]]
    seedings,          \* the number of generate_particles calls
    follow_enabled,    \* FollowModule.enabled
    follow_bound,      \* the allocation bound in FollowModule.bind_groups
    capture_enabled,   \* CaptureModule.enabled
    texture_size,      \* CaptureModule.texture: <<width, height>>
    file_len,          \* the length of frame_buffer.bin
    file_before,       \* history: the length frame_buffer.bin had before startup
    captured_bytes,    \* history: the sum of width*height*4 over the captured frames
    fresh,             \* history: <<allocation, slot>> holding the most recent particle state
    ticks,             \* history: the number of idle ticks
    last,              \* history: what the latest idle tick did
    \* --- camera, follow summary, GUI layer (main.rs, follow.rs, render.rs, gui.rs)
    view_zoom,         \* app_state.view_zoom (an f32)
    view_offset,       \* app_state.view_offset
    viewport,          \* RenderModule.viewport_buffer: [offset, zoom]
    follow_info,       \* FollowModule.info
    center_of_mass,    \* FollowModule.center_of_mass
    auto_zoom,         \* FollowModule.auto_zoom
    param_buffer,      \* PhysicsModule.param_buffer: [delta_time, gravitational_constant]
    fullscreen,        \* window.fullscreen().is_some()
    gui_events,        \* EguiIntegration.raw_input.events
    last_event,        \* history: the latest window event and what its handler did
    wheels,            \* history: the number of mouse-wheel events
    \* --- the window, the pointer and the sizes derived from the window's
    is_right_click_pressed, \* app_state.is_right_click_pressed: the panning flag
    mouse_position,    \* app_state.mouse_position
    window_size,       \* the window's latest pixel size: <<width, height>>
    surface_size,      \* config.width, config.height: the configured surface
    render_size,       \* RenderModule.screen_size_buffer
    raw_screen_rect,   \* EguiIntegration.raw_input.screen_rect
    ctx_screen_rect,   \* the screen rectangle the egui context works with
    pointer_events,    \* history: the number of pointer events
    last_right         \* history: the state of the latest right-button event

buildVars == <<overflow_checks>>
pureVars == <<calc>>
paceVars == <<now, instants, pacer_current, in_frame, frame_begin, frames, delays, last_end>>
simVars == <<num_particles, new_num_particles, capacity, alloc, current,
             particle_buffers, seedings, fresh>>
appVars == <<crashed, is_paused, step, framerate, follow_enabled, follow_bound,
             capture_enabled, texture_size, file_len, file_before, captured_bytes,
             ticks, last>>
uiVars == <<view_zoom, view_offset, viewport, follow_info, center_of_mass, auto_zoom,
            param_buffer, fullscreen, gui_events, last_event, wheels>>
windowVars == <<is_right_click_pressed, mouse_position, window_size, surface_size,
                render_size, raw_screen_rect, ctx_screen_rect, pointer_events,
                last_right>>
vars == <<overflow_checks, calc, now, instants, pacer_current, in_frame, frame_begin,
          frames, delays, last_end, crashed, is_paused, step, framerate,
          num_particles, new_num_particles, capacity, alloc, current,
          particle_buffers, seedings, follow_enabled, follow_bound, capture_enabled,
          texture_size, file_len, file_before, captured_bytes, fresh, ticks, last,
          view_zoom, view_offset, viewport, follow_info, center_of_mass, auto_zoom,
          param_buffer, fullscreen, gui_events, last_event, wheels,
          is_right_click_pressed, mouse_position, window_size, surface_size,
          render_size, raw_screen_rect, ctx_screen_rect, pointer_events, last_right>>

\* ------------------------------------------------------------ u32

U32(hi, lo) == <<hi, lo>>
U32FromNat(n) == <<n \div LIMB, n % LIMB>>
\* defined for values below 2^31 only
U32ToNat(v) == v[1] * LIMB + v[2]
U32_MAX == <<LIMB - 1, LIMB - 1>>
U32Leq(a, b) == a[1] < b[1] \/ (a[1] = b[1] /\ a[2] <= b[2])

\* v % m, for 0 < m <= 32768
U32Rem(v, m) == ((v[1] % m) * (LIMB % m) + v[2]) % m

\* v + k for a small k (0 <= k < LIMB): the exact sum's limbs and its carry out
U32AddCarry(v, k) ==
    LET lo == v[2] + k
        hi == v[1] + (lo \div LIMB)
    IN  [carry |-> hi >= LIMB, value |-> <<hi % LIMB, lo % LIMB>>]

\* b - a for a <= b, when the difference is below LIMB; LIMB otherwise
U32SmallDiff(a, b) ==
    IF b[1] = a[1] THEN b[2] - a[2]
    ELSE IF b[1] = a[1] + 1 /\ b[2] + LIMB - a[2] < LIMB THEN b[2] + LIMB - a[2]
    ELSE LIMB

\* The result of a u32 computation: a value, or a panic.
Ok(v) == [panic |-> FALSE, value |-> v]
Panic == [panic |-> TRUE, value |-> <<0, 0>>]

\* Rust's `value += k` on a u32: with overflow checks an overflow panics,
\* without them the sum wraps modulo 2^32.
U32AddAssign(v, k) ==
    LET s == U32AddCarry(v, k)
    IN  IF s.carry /\ overflow_checks THEN Panic ELSE Ok(s.value)

\* ------------------------------------------------------------ utils.rs

\* A plausible slip: the test `remainder != 0` left out.
multiple_of_always_adds(value, multiple) ==
    LET remainder == U32Rem(value, multiple)
    IN  U32AddAssign(value, multiple - remainder)

\* utils.rs:3-10 (and its copy, capture.rs:183-190)
multiple_of(value, multiple) ==
    LET remainder == U32Rem(value, multiple)
    IN  IF remainder # 0
        THEN U32AddAssign(value, multiple - remainder)
        ELSE Ok(value)

\* ------------------------------------------------------------ capture.rs: rows

\* capture.rs:24-25, 76-77: the staging buffer's size in bytes
StagingBufferSize(width, height) ==
    U32ToNat(multiple_of(U32FromNat(width), COPY_BYTES_PER_ROW_ALIGNMENT).value)
        * height * 4

\* capture.rs:129-130: the stride copy_texture_to_buffer hands to the copy
CopyBytesPerRow(width) ==
    U32ToNat(multiple_of(U32FromNat(width * 4), COPY_BYTES_PER_ROW_ALIGNMENT).value)

\* capture.rs:164-165: the stride get_frame uses to find a row
GetFrameBytesPerRow(width) ==
    U32ToNat(multiple_of(U32FromNat(width), COPY_BYTES_PER_ROW_ALIGNMENT).value) * 4

\* capture.rs:132-147: what the copy leaves at byte offset o of the staging
\* buffer: byte k of texture row y sits at y * bytes_per_row + k; the bytes
\* between the rows are not written.
StagingByte(width, height, o) ==
    LET y == o \div CopyBytesPerRow(width)
        k == o % CopyBytesPerRow(width)
    IN  IF y < height /\ k < width * 4 THEN <<"px", y, k>> ELSE <<"pad">>

\* capture.rs:166-171: the bytes get_frame writes to the file for row y,
\* result[row .. row + texture_width * 4]
GetFrameRow(width, height, y) ==
    LET row == y * GetFrameBytesPerRow(width)
    IN  [k \in 1..(width * 4) |-> StagingByte(width, height, row + k - 1)]

\* the pixel bytes of texture row y
TextureRow(width, y) == [k \in 1..(width * 4) |-> <<"px", y, k - 1>>]


NoCall == [op |-> "none"]

\* ------------------------------------------------------------ f32 values

Fin(v) == [k |-> "fin", v |-> v]
Inf == [k |-> "inf", v |-> F32_HUGE]
NaN == [k |-> "nan", v |-> 0]
IsFinite(x) == x.k = "fin"
\* x > f32::EPSILON (a comparison with NaN is false)
GtEpsilon(x) == x.k = "inf" \/ (x.k = "fin" /\ x.v > F32_EPSILON_UNITS)

\* main.rs:440  1.0 / app_state.framerate as f32  (1.0 / 0.0 is +infinity)
FrameTarget(fr) ==
    IF fr = 0 THEN Inf ELSE Fin(SECOND \div fr)

\* ------------------------------------------------------------ framepace.rs

\* framepace.rs:45-47
next(cur) == (cur + 1) % 2

\* framepace.rs:16-18: the time from instants[current] to the instant t
frametime(inst, cur, t) == t - inst[cur]

\* A plausible slip: the is_finite() test left out.
ShouldPaceWithoutFiniteTest(limit_frametime) == GtEpsilon(limit_frametime)

\* framepace.rs:29: limit_frametime > f32::EPSILON && limit_frametime.is_finite()
ShouldPace(limit_frametime) ==
    GtEpsilon(limit_frametime) /\ IsFinite(limit_frametime)

\* framepace.rs:24-26, called at the instant t: the new instants
begin_frame(inst, cur, t) == [inst EXCEPT ![next(cur)] = t]

\* framepace.rs:28-44, entered at the instant t.  thread::sleep sleeps for at
\* least its argument (it oversleeps by `oversleep`); the spin loop then runs
\* until frametime() has reached the limit.  The result: the new current,
\* whether it slept, and the instant it returns at.
end_frame(inst, cur, t, limit_frametime, oversleep) ==
    LET sleep_time == limit_frametime.v - frametime(inst, cur, t) - ACCURACY
        sleeps == ShouldPace(limit_frametime) /\ sleep_time > 0
        woke == t + sleep_time + oversleep
    IN  [current |-> next(cur),
         slept |-> sleeps,
         returned |-> IF ~sleeps THEN t
                      ELSE IF frametime(inst, cur, woke) < limit_frametime.v
                           THEN inst[cur] + limit_frametime.v
                           ELSE woke]

\* what the history keeps of an end_frame call entered at t
EndRecord(by, limit_frametime, t, begun, e) ==
    [called |-> TRUE, by |-> by, target |-> limit_frametime, entered |-> t,
     begun |-> begun, slept |-> e.slept, returned |-> e.returned]

\* ------------------------------------------------------------ the paced loop

Delays == {3000, 2000000}
Oversleeps == {0, 7000}
PacedFramerates == {0, 60, 10000000}
DirectTargets ==
    {Fin(0), Fin(-5), Fin(F32_EPSILON_UNITS), Fin(F32_EPSILON_UNITS + 1),
     Fin(3 * ACCURACY), Inf, NaN}

NoEnd == [called |-> FALSE]

\* time passes: between two frames (events, the OS) or inside one (the passes)
PassTime ==
    /\ delays < MaxDelays
    /\ \E d \in Delays : now' = now + d
    /\ delays' = delays + 1
    /\ UNCHANGED <<instants, pacer_current, in_frame, frame_begin, frames, last_end>>
    /\ UNCHANGED <<buildVars, pureVars, simVars, appVars, uiVars, windowVars>>

\* main.rs:261  framepace.begin_frame()
BeginFrame ==
    /\ ~in_frame
    /\ frames < MaxFrames
    /\ instants' = begin_frame(instants, pacer_current, now)
    /\ in_frame' = TRUE
    /\ frame_begin' = now
    /\ frames' = frames + 1
    /\ UNCHANGED <<now, pacer_current, delays, last_end>>
    /\ UNCHANGED <<buildVars, pureVars, simVars, appVars, uiVars, windowVars>>

\* end_frame(limit_frametime), called by `by`
EndFrameCalled(by, limit_frametime, oversleep) ==
    LET e == end_frame(instants, pacer_current, now, limit_frametime, oversleep)
    IN  /\ now' = e.returned
        /\ pacer_current' = e.current
        /\ last_end' = EndRecord(by, limit_frametime, now, frame_begin, e)
        /\ in_frame' = FALSE
        /\ UNCHANGED <<instants, frame_begin, frames, delays>>
        /\ UNCHANGED <<buildVars, pureVars, simVars, appVars, uiVars, windowVars>>

\* main.rs:440  framepace.end_frame(1.0 / app_state.framerate as f32)
TickEndFrame ==
    /\ in_frame
    /\ \E fr \in PacedFramerates, oversleep \in Oversleeps :
           EndFrameCalled([tick |-> TRUE, framerate |-> fr], FrameTarget(fr), oversleep)

\* end_frame called with any target
CallEndFrame ==
    /\ in_frame
    /\ \E target \in DirectTargets, oversleep \in Oversleeps :
           EndFrameCalled([tick |-> FALSE, framerate |-> 0], target, oversleep)

\* framepace.rs:9-14: both instants are the time of construction
InitPacer ==
    /\ now = 0
    /\ instants = [i \in 0..1 |-> 0]
    /\ pacer_current = 0
    /\ in_frame = FALSE
    /\ frame_begin = 0
    /\ frames = 0
    /\ delays = 0
    /\ last_end = NoEnd

\* ------------------------------------------------------------ pure calls

SmallValues == 0..MaxSmallValue
\* 4096 and 4100 are the spec's examples; the last values sit next to 2^32
Values ==
    {U32FromNat(n) : n \in SmallValues \cup {255, 256, 257, 4096, 4100, 65535, 65536}}
    \cup {U32(LIMB - 1, LIMB - 256), U32(LIMB - 1, LIMB - 255), U32(LIMB - 1, LIMB - 2), U32_MAX}
Multiples == {1, 2, 3, 128, 256, 1000, 32768}
WideWidths == {64, 65}
Widths == (1..MaxWidth) \cup WideWidths
Heights == 1..MaxHeight

CallMultipleOf ==
    \E value \in Values, multiple \in Multiples :
        /\ calc' = [op |-> "multiple_of", value |-> value, multiple |-> multiple,
                    result |-> multiple_of(value, multiple)]
        /\ UNCHANGED <<buildVars, paceVars, simVars, appVars, uiVars, windowVars>>

CallGetFrameRow ==
    \E width \in Widths, height \in Heights :
        \E y \in 0..(height - 1) :
            /\ calc' = [op |-> "row", width |-> width, height |-> height, y |-> y,
                        copy_stride |-> CopyBytesPerRow(width),
                        read_stride |-> GetFrameBytesPerRow(width),
                        size |-> StagingBufferSize(width, height),
                        bytes |-> GetFrameRow(width, height, y)]
            /\ UNCHANGED <<buildVars, paceVars, simVars, appVars, uiVars, windowVars>>

\* ------------------------------------------------------------ particles

\* types.rs:3-9  Particle.  velocity: 0 is Vec2::ZERO, 1 any other vector;
\* radius and mass in tenths; `by` tells which generate_particles call wrote
\* the particle (0: none).  A buffer wgpu has just created holds zeroes.
ZeroedParticle == [by |-> 0, velocity |-> 0, radius |-> 0, mass |-> 0]

\* particle.rs:25-30: velocity Vec2::ZERO, radius 0.1, mass 0.1
GeneratedParticle(seeding) == [by |-> seeding, velocity |-> 0, radius |-> 1, mass |-> 1]

\* one thread of a physics kernel: the particle with its velocity changed
Advanced(p) == [p EXCEPT !.velocity = 1]

\* ------------------------------------------------------------ physics.rs

\* physics.rs:35-50: two buffers of max_particles particles each
NewBuffers(max_particles) ==
    [slot \in 0..1 |-> [i \in 0..(max_particles - 1) |-> ZeroedParticle]]

\* PhysicsModule::current_buffer(), as main.rs:384 and particle.rs:34 use it
current_buffer(bufs, cur) == bufs[cur]

\* dispatch_workgroups(work_group_count, 1, 1) with one bind group: threads
\* 0..threads-1 each read binding 0 (src) and write their particle of
\* binding 1 (dst)
ComputePass(src, dst, threads) ==
    [i \in DOMAIN dst |-> IF i < threads THEN Advanced(src[i]) ELSE dst[i]]

\* physics.rs:162-181  PhysicsModule::begin_pass(&self, ..): the collision
\* pipeline with bind_group_collision (reads particle_buffer_collision,
\* writes particle_buffer_gravity), then the gravity pipeline with
\* bind_group_gravity (reads particle_buffer_gravity, writes
\* particle_buffer_collision).  Slot 0 is particle_buffer_collision, slot 1
\* particle_buffer_gravity.  It takes &self: current is left as it is.
\* `input` is the slot the dispatch takes the particles from, `written` the
\* slot its last pass wrote.
physics_begin_pass(bufs, cur, work_group_count) ==
    LET threads == work_group_count * PARTICLES_PER_WORKGROUP
        gravity == ComputePass(bufs[0], bufs[1], threads)
        collision == ComputePass(gravity, bufs[0], threads)
    IN  [buffers |-> [slot \in 0..1 |-> IF slot = 0 THEN collision ELSE gravity],
         current |-> cur,
         input |-> 0,
         written |-> 0,
         threads |-> threads]

\* ------------------------------------------------------------ particle.rs

\* particle.rs:20-32: the indices i = c + p * (num_particles / 128) written
WrittenIndices(n) ==
    {c + p * (n \div CLUSTER_SIZE) :
        c \in 0..((n \div CLUSTER_SIZE) - 1), p \in 0..(CLUSTER_SIZE - 1)}

\* particle.rs:16-40: every written index of the current buffer gets a
\* generated particle (queue.write_buffer at i * 24)
generate_particles(bufs, cur, n, seeding) ==
    LET written == WrittenIndices(n)
    IN  [bufs EXCEPT ![cur] =
            [i \in DOMAIN @ |-> IF i \in written THEN GeneratedParticle(seeding) ELSE @[i]]]

\* a write_buffer past the end of the buffer fails wgpu's validation, which
\* is fatal
WritesPastEnd(n, max_particles) == \E i \in WrittenIndices(n) : i >= max_particles

\* ------------------------------------------------------------ main.rs: buffers

\* a u32 the model can count with
IsSmall(v) == v[1] < LIMB \div 2

\* v - k for 0 <= k <= v, k < LIMB
U32SubSmall(v, k) ==
    IF v[2] >= k THEN <<v[1], v[2] - k>> ELSE <<v[1] - 1, v[2] + LIMB - k>>

\* A plausible slip: rounding down to the workgroup size.
buffer_particles_rounding_down(n) ==
    Ok(U32SubSmall(n, U32Rem(n, PARTICLES_PER_WORKGROUP)))

\* main.rs:88-92 and 309-317: n + 256 - n % 256 when n % 256 > 0, else n
buffer_particles(n) ==
    IF U32Rem(n, PARTICLES_PER_WORKGROUP) > 0
    THEN LET sum == U32AddAssign(n, PARTICLES_PER_WORKGROUP)
         IN  IF sum.panic THEN Panic
             ELSE Ok(U32SubSmall(sum.value, U32Rem(n, PARTICLES_PER_WORKGROUP)))
    ELSE Ok(n)

\* A plausible slip: the test `new_num_particles > 0` left out.
RegenerateFiresOnAnyCount(new_count) == TRUE

\* main.rs:307  ui.button("Regenerate").clicked() && new_num_particles > 0
RegenerateFires(new_count) == new_count # U32FromNat(0)

\* main.rs:307-329, the Regenerate button clicked with the edited count
\* new_count: what the handler leaves.  The buffers are those the queue's
\* writes produce at the next submit.
\*   main.rs:308-321  a changed count: resize_buffers(buffer_particles), two
\*                    new buffers; main.rs:323-328  num_particles, generator.
Regenerate(new_count) ==
    LET fired == RegenerateFires(new_count)
        changed == fired /\ U32FromNat(num_particles) # new_count
        rounded == buffer_particles(new_count)
        panics == changed /\ rounded.panic
        max_particles == IF changed /\ ~panics THEN U32ToNat(rounded.value) ELSE capacity
        bufs == IF changed /\ ~panics THEN NewBuffers(max_particles) ELSE particle_buffers
        past_end == fired /\ ~panics /\
                      (~IsSmall(new_count) \/ WritesPastEnd(U32ToNat(new_count), max_particles))
    IN  IF ~fired \/ panics \/ past_end
        THEN [fired |-> fired, crashed |-> panics \/ past_end, resized |-> FALSE,
              capacity |-> capacity, alloc |-> alloc, buffers |-> particle_buffers,
              num_particles |-> num_particles, seedings |-> seedings]
        ELSE [fired |-> TRUE, crashed |-> FALSE, resized |-> changed,
              capacity |-> max_particles,
              alloc |-> IF changed THEN alloc + 1 ELSE alloc,
              buffers |-> generate_particles(bufs, current, U32ToNat(new_count), seedings + 1),
              num_particles |-> U32ToNat(new_count),
              seedings |-> seedings + 1]

\* ------------------------------------------------------------ capture.rs: file

\* capture.rs:53-58: an existing frame_buffer.bin is removed and File::create
\* makes an empty one, whatever length `before` the old file had
created_file_len(before) == 0

RECURSIVE RowsBytes(_, _, _)
\* capture.rs:166-171: write_all of rows 0..y-1, each the slice get_frame cuts
RowsBytes(width, height, y) ==
    IF y = 0 THEN 0
    ELSE RowsBytes(width, height, y - 1) + Len(GetFrameRow(width, height, y - 1))

\* A plausible slip: whole padded rows written, the padding not stripped.
get_frame_bytes_padded(size) == size[2] * GetFrameBytesPerRow(size[1])

\* capture.rs:150-180: the bytes one get_frame appends for a texture of `size`
get_frame_bytes(size) == RowsBytes(size[1], size[2], size[2])

\* ------------------------------------------------------------ camera values

\* Zoom values are f32s: Fin(v) with v in units of 1e-5, Inf, NegInf or NaN.
\* Positions and offsets are pairs of whole numbers of 1/256.
NegInf == [k |-> "ninf", v |-> -F32_HUGE]
\* main.rs:121  view_zoom: 1.0
ZOOM_ONE == 100000
\* main.rs:212  .clamp(0.01, 10.0)
ZOOM_MIN == 1000
ZOOM_MAX == 1000000
\* main.rs:209  * 0.005, as a division by 200
SCROLL_DIVISOR == 200

IsNaN(x) == x.k = "nan"
IsInfinite(x) == x.k \in {"inf", "ninf"}
Sign(x) ==
    IF x.k = "inf" THEN 1
    ELSE IF x.k = "ninf" THEN -1
    ELSE IF x.v > 0 THEN 1 ELSE IF x.v < 0 THEN -1 ELSE 0

\* IEEE 754 a * b when an operand is not finite: NaN for a NaN operand and
\* for 0 * infinity, else the infinity of the product's sign
F32MulNonFinite(a, b) ==
    IF IsNaN(a) \/ IsNaN(b) \/ Sign(a) * Sign(b) = 0 THEN NaN
    ELSE IF Sign(a) * Sign(b) > 0 THEN Inf ELSE NegInf

\* IEEE 754 a + b: infinity - infinity is NaN
F32Add(a, b) ==
    IF IsNaN(a) \/ IsNaN(b) THEN NaN
    ELSE IF IsInfinite(a) /\ IsInfinite(b) THEN (IF a.k = b.k THEN a ELSE NaN)
    ELSE IF IsInfinite(a) THEN a
    ELSE IF IsInfinite(b) THEN b
    ELSE Fin(a.v + b.v)

\* a < b (false when an operand is NaN)
F32Lt(a, b) == ~IsNaN(a) /\ ~IsNaN(b) /\ a.v < b.v

\* f32::clamp(min, max): `if x < min { min } else if x > max { max } else { x }`,
\* so a NaN is returned as it is
F32Clamp(x, min, max) ==
    IF F32Lt(x, Fin(min)) THEN Fin(min)
    ELSE IF F32Lt(Fin(max), x) THEN Fin(max)
    ELSE x

\* main.rs:205-210  delta = y * 0.005 * app_state.view_zoom, y the wheel's
\* delta in whole lines (finite products are rounded down to the grid)
wheel_delta(y, zoom) ==
    IF IsFinite(y) /\ IsFinite(zoom)
    THEN Fin((zoom.v \div SCROLL_DIVISOR) * y.v)
    ELSE F32MulNonFinite(y, zoom)

\* main.rs:212  (app_state.view_zoom + delta).clamp(0.01, 10.0)
mouse_wheel_zoom(zoom, y) == F32Clamp(F32Add(zoom, wheel_delta(y, zoom)), ZOOM_MIN, ZOOM_MAX)

\* ------------------------------------------------------------ follow summary

Vec(x, y) == <<x, y>>
VecNeg(a) == <<-a[1], -a[2]>>
VecSub(a, b) == <<a[1] - b[1], a[2] - b[2]>>
Abs(n) == IF n < 0 THEN -n ELSE n
VecAbs(a) == <<Abs(a[1]), Abs(a[2])>>

\* Vec2::length for a vector along an axis (the summaries of the model have
\* their extent along one axis)
AxisLength(a) == IF a[1] = 0 THEN a[2] ELSE a[1]

RECURSIVE Log16(_)
Log16(n) == IF n <= 1 THEN 0 ELSE 1 + Log16(n \div 16)
RECURSIVE Pow8(_)
Pow8(k) == IF k = 0 THEN 1 ELSE 8 * Pow8(k - 1)

\* main.rs:429-433  size = (max_position - min_position).abs();
\* size.length_recip().powf(0.75).  The length of a zero vector has the
\* reciprocal +infinity.  For a length of 16^k / 256 the value is
\* 64 / 8^k, exactly.
auto_zoom_of(min_position, max_position) ==
    LET length == AxisLength(VecAbs(VecSub(max_position, min_position)))
    IN  IF length = 0 THEN Inf
        ELSE Fin((64 * ZOOM_ONE) \div Pow8(Log16(length)))

\* follow.rs:5-11  InfoOutput, and its Default
InfoOutput(c, min_position, max_position) ==
    [center_of_mass |-> c, min_position |-> min_position, max_position |-> max_position,
     avg_velocity |-> Vec(0, 0)]
DefaultInfo == InfoOutput(Vec(0, 0), Vec(0, 0), Vec(0, 0))

\* What a readback meets: whether device.poll waited the work out or timed
\* out, whether .panic_on_timeout() panics then (it does or does not, by
\* the wgpu version built against), whether the map succeeded, and the
\* summary the follow kernel left in the staging buffer.
Readbacks(polls, panics, map_oks, summaries) ==
    [poll : polls, panics : panics, map_ok : map_oks, summary : summaries]

\* follow.rs:183-201  FollowModule::get_data: None when disabled; a poll
\* that times out panics in panic_on_timeout or, where that does nothing,
\* recv() waits for the map's callback; Some(result) iff the map succeeded
get_data(enabled, r) ==
    IF ~enabled THEN [panic |-> FALSE, some |-> FALSE, data |-> DefaultInfo]
    ELSE IF r.poll = "timeout" /\ r.panics
         THEN [panic |-> TRUE, some |-> FALSE, data |-> DefaultInfo]
    ELSE IF r.map_ok THEN [panic |-> FALSE, some |-> TRUE, data |-> r.summary]
    ELSE [panic |-> FALSE, some |-> FALSE, data |-> DefaultInfo]

\* A plausible slip: the camera centred on the centre of mass, not on its
\* negation.
follow_offset_not_negated(info) == info.center_of_mass

\* main.rs:421  app_state.view_offset = -output.center_of_mass
follow_offset(info) == VecNeg(info.center_of_mass)

\* main.rs:416-438: the follow readback and the camera automation, from the
\* camera cam = [view_offset, view_zoom, viewport] the GUI step left
follow_readback(enabled, com, az, info, cam, r) ==
    LET output == get_data(enabled, r)
        hit == enabled /\ ~output.panic /\ output.some
        offset1 == IF hit /\ com THEN follow_offset(output.data) ELSE cam.view_offset
        zoom1 == IF hit /\ az
                 THEN auto_zoom_of(output.data.min_position, output.data.max_position)
                 ELSE cam.view_zoom
    IN  [panic |-> enabled /\ output.panic,
         called |-> enabled,
         some |-> hit,
         info |-> IF hit THEN output.data ELSE info,
         view_offset |-> offset1,
         view_zoom |-> zoom1,
         viewport |-> [offset |-> IF hit /\ com THEN offset1 ELSE cam.viewport.offset,
                       zoom |-> IF hit /\ az THEN zoom1 ELSE cam.viewport.zoom],
         pushed_offset |-> hit /\ com,
         pushed_zoom |-> hit /\ az]

\* ------------------------------------------------------------ main.rs: events

Keys == {"Space", "KeyN", "KeyF", "KeyC"}
Framerates == {0, 60}
CliParticles == {U32FromNat(200), U32FromNat(256), U32_MAX}
CountEdits == {U32FromNat(0), U32FromNat(100), U32FromNat(256), U32FromNat(300), U32_MAX}
WindowSizes == {<<1, 2>>, <<MaxWidth, MaxHeight>>, <<65, 1>>}
FileLensBefore == {0, 12}
\* the time the passes of one tick take, in units of 1e-8 s
TickWork == 500000

NoTick == [ran |-> FALSE]

\* raw_input.screen_rect: None
NoRect == <<>>
\* gui.rs:19  egui::RawInput::default(), handed to a context that was never
\* given a rectangle: egui then works with a square of this side
EGUI_DEFAULT_SIDE == 10000
EguiDefaultRect == <<EGUI_DEFAULT_SIDE, EGUI_DEFAULT_SIDE>>

\* gui.rs:28-33  EguiIntegration::resize: raw_input.screen_rect =
\* Some(Rect::from_min_size(origin, (width, height)))
gui_resize(width, height) == <<width, height>>

\* A plausible slip: the raw input cloned for the frame, not taken, so that the
\* events stay queued.
gui_run_keeping_events(raw_rect, events, ctx_rect) ==
    [raw_screen_rect |-> NoRect,
     gui_events |-> events,
     delivered |-> events,
     ctx_screen_rect |-> IF raw_rect = NoRect THEN ctx_rect ELSE raw_rect]

\* gui.rs:35-37  EguiIntegration::run: the raw input is taken, which leaves
\* RawInput::default() behind, and begins the context's frame; a context
\* handed no rectangle keeps the one it had
gui_run(raw_rect, events, ctx_rect) ==
    [raw_screen_rect |-> NoRect,
     gui_events |-> <<>>,
     delivered |-> events,
     ctx_screen_rect |-> IF raw_rect = NoRect THEN ctx_rect ELSE raw_rect]

\* main.rs:141-154  WindowEvent::Resized
Resized ==
    /\ ~crashed
    /\ \E new_size \in WindowSizes :
           /\ new_size # window_size
           /\ window_size' = new_size
           \* main.rs:145-147  config.width, config.height, surface.configure
           /\ surface_size' = new_size
           \* main.rs:149  render_module.update_size
           /\ render_size' = new_size
           \* main.rs:150  egui_integration.resize (gui.rs:28-33)
           /\ raw_screen_rect' = gui_resize(new_size[1], new_size[2])
           \* main.rs:152-153  capture_module.resize
           /\ texture_size' = new_size
    /\ UNCHANGED <<crashed, is_paused, step, framerate, follow_enabled, follow_bound,
                   capture_enabled, file_len, file_before, captured_bytes, ticks, last>>
    /\ UNCHANGED <<view_zoom, view_offset, viewport, follow_info, center_of_mass,
                   auto_zoom, param_buffer, fullscreen, gui_events, last_event, wheels>>
    /\ UNCHANGED <<is_right_click_pressed, mouse_position, ctx_screen_rect,
                   pointer_events, last_right>>
    /\ UNCHANGED <<buildVars, pureVars, paceVars, simVars>>

\* ------------------------------------------------------------ main.rs, gui.rs: input events

KeyStates == {"Pressed", "Released"}
KeyCodes == {"Space", "F11", "KeyN", "KeyF", "KeyC", "KeyA"}
\* the keys whose logical key is a Key::Named (the others are characters)
NamedKeys == {"Space", "F11"}
\* gui.rs:231-252  named_key_to_egui_key: the named keys egui knows
EguiNamedKeys == {"Space"}

\* A plausible slip: the shortcuts matched whatever the key's state.
KeyHandledInAnyState(state, key) == key \in {"Space", "F11", "KeyN", "KeyF", "KeyC"}

\* main.rs:162-190: the arms of the match; `_ => handled = false`
KeyHandled(state, key) ==
    state = "Pressed" /\ key \in {"Space", "F11", "KeyN", "KeyF", "KeyC"}

\* gui.rs:97-127  EguiIntegration::key_event: the events it pushes to
\* raw_input.events
key_event(state, key) ==
    IF key \in NamedKeys
    THEN IF key \in EguiNamedKeys
         THEN <<[type |-> "Key", key |-> key, pressed |-> state = "Pressed"]>>
         ELSE <<>>
    ELSE IF state = "Pressed" THEN <<[type |-> "Text", key |-> key, pressed |-> TRUE]>>
         ELSE <<>>

\* main.rs:156-194  WindowEvent::KeyboardInput: the key `key` pressed or released
KeyboardEvent(state, key) ==
    LET handled == KeyHandled(state, key)
        does(k) == handled /\ key = k
    IN  /\ ~crashed
        /\ ~handled => Len(gui_events) < MaxGuiEvents
        /\ is_paused' = IF does("Space") THEN ~is_paused ELSE is_paused
        /\ fullscreen' = IF does("F11") THEN ~fullscreen ELSE fullscreen
        /\ step' = IF does("KeyN") THEN TRUE ELSE step
        /\ follow_enabled' = IF does("KeyF") THEN ~follow_enabled ELSE follow_enabled
        /\ capture_enabled' = IF does("KeyC") THEN ~capture_enabled ELSE capture_enabled
        /\ gui_events' = IF handled THEN gui_events ELSE gui_events \o key_event(state, key)
        /\ last_event' = [kind |-> "key", state |-> state, key |-> key,
                          handled |-> handled,
                          key_event_calls |-> IF handled THEN 0 ELSE 1,
                          paused_before |-> is_paused, step_before |-> step,
                          follow_before |-> follow_enabled,
                          capture_before |-> capture_enabled,
                          fullscreen_before |-> fullscreen,
                          events_before |-> gui_events]
        /\ UNCHANGED <<crashed, framerate, follow_bound, texture_size, file_len, file_before,
                       captured_bytes, ticks, last>>
        /\ UNCHANGED <<view_zoom, view_offset, viewport, follow_info, center_of_mass,
                       auto_zoom, param_buffer, wheels>>
        /\ UNCHANGED <<buildVars, pureVars, paceVars, simVars, windowVars>>

\* a press of one of the keys of the simulation's shortcuts
KeyboardInput(key) == KeyboardEvent("Pressed", key)

WheelDeltas == {Fin(-4000), Fin(0), Fin(1), Fin(4000)}

\* main.rs:200-214  WindowEvent::MouseWheel with the delta y
MouseWheel(y) ==
    /\ ~crashed
    /\ wheels < MaxWheels
    /\ wheels' = wheels + 1
    /\ view_zoom' = mouse_wheel_zoom(view_zoom, y)
    /\ viewport' = [viewport EXCEPT !.zoom = mouse_wheel_zoom(view_zoom, y)]
    /\ last_event' = [kind |-> "wheel", y |-> y, zoom_before |-> view_zoom]
    /\ UNCHANGED <<view_offset, follow_info, center_of_mass, auto_zoom, param_buffer,
                   fullscreen, gui_events>>
    /\ UNCHANGED <<buildVars, pureVars, paceVars, simVars, appVars, windowVars>>

MouseButtons == {"Left", "Right", "Middle", "Other"}
\* gui.rs:136-143: the buttons egui has a name for
EguiButtons == {"Left", "Right", "Middle"}

\* gui.rs:129-151  EguiIntegration::mouse_event: the events it pushes
mouse_event(position, state, button) ==
    IF button \in EguiButtons
    THEN <<[type |-> "PointerButton", pos |-> position, button |-> button,
            pressed |-> state = "Pressed"]>>
    ELSE <<>>

\* gui.rs:153-159  EguiIntegration::mouse_motion
mouse_motion(position) == <<[type |-> "PointerMoved", pos |-> position]>>

\* A plausible slip: every button's events forwarded, the right one's too.
MouseForwardedAlways(state, button) == TRUE

\* main.rs:219-231: the arms for the right button come first, every other
\* (state, button) reaches egui_integration.mouse_event
MouseForwarded(state, button) == button # "Right"

\* main.rs:215-232  WindowEvent::MouseInput
MouseInput(state, button) ==
    LET forwarded == MouseForwarded(state, button)
        right == button = "Right"
    IN  /\ ~crashed
        /\ pointer_events < MaxPointerEvents
        /\ forwarded => Len(gui_events) < MaxGuiEvents
        /\ pointer_events' = pointer_events + 1
        /\ is_right_click_pressed' = IF right THEN state = "Pressed"
                                     ELSE is_right_click_pressed
        /\ last_right' = IF right THEN state ELSE last_right
        /\ gui_events' = IF forwarded
                         THEN gui_events \o mouse_event(mouse_position, state, button)
                         ELSE gui_events
        /\ last_event' = [kind |-> "mouse", state |-> state, button |-> button,
                          mouse_event_calls |-> IF forwarded THEN 1 ELSE 0,
                          position |-> mouse_position,
                          flag_before |-> is_right_click_pressed,
                          events_before |-> gui_events]
        /\ UNCHANGED <<view_zoom, view_offset, viewport, follow_info, center_of_mass,
                       auto_zoom, param_buffer, fullscreen, wheels>>
        /\ UNCHANGED <<mouse_position, window_size, surface_size, render_size,
                       raw_screen_rect, ctx_screen_rect>>
        /\ UNCHANGED <<buildVars, pureVars, paceVars, simVars, appVars>>

\* n / d rounded towards zero
TruncDiv(n, d) == IF n >= 0 THEN n \div d ELSE -((-n) \div d)

\* 0.005 * 256 * 1e5: a pixel of cursor travel at zoom 1.0 is 0.005 units of
\* offset, and offsets are whole numbers of 1/256
PAN_SCALE == 128000

\* main.rs:240-241  delta * Vec2::new(1.0, -1.0) * 0.005 / app_state.view_zoom
\* (a finite quotient is rounded towards zero; x / infinity is 0)
pan_step(delta, zoom) ==
    IF IsNaN(zoom) THEN <<NaN, NaN>>
    ELSE IF IsInfinite(zoom) THEN <<0, 0>>
    ELSE <<TruncDiv(delta[1] * PAN_SCALE, zoom.v), -TruncDiv(delta[2] * PAN_SCALE, zoom.v)>>

\* main.rs:239-241  app_state.view_offset += ...
pan_offset(offset, position, previous, zoom) ==
    LET s == pan_step(VecSub(position, previous), zoom)
    IN  IF IsNaN(zoom) THEN s ELSE <<offset[1] + s[1], offset[2] + s[2]>>

\* A plausible slip: the offset moved with the cursor whatever the flag.
cursor_offset_always_panning(panning, offset, position, previous, zoom) ==
    pan_offset(offset, position, previous, zoom)

\* main.rs:238-242  if app_state.is_right_click_pressed { ... }
cursor_offset(panning, offset, position, previous, zoom) ==
    IF panning THEN pan_offset(offset, position, previous, zoom) ELSE offset

CursorPositions == {Vec(0, 0), Vec(25, 50), Vec(100, 25)}

\* main.rs:233-252  WindowEvent::CursorMoved
CursorMoved(position) ==
    LET offset1 == cursor_offset(is_right_click_pressed, view_offset, position,
                                 mouse_position, view_zoom)
    IN  /\ ~crashed
        /\ pointer_events < MaxPointerEvents
        /\ Len(gui_events) < MaxGuiEvents
        /\ pointer_events' = pointer_events + 1
        /\ view_offset' = offset1
        /\ viewport' = IF is_right_click_pressed
                       THEN [viewport EXCEPT !.offset = offset1]
                       ELSE viewport
        /\ gui_events' = gui_events \o mouse_motion(position)
        /\ mouse_position' = position
        /\ last_event' = [kind |-> "cursor", position |-> position,
                          panning |-> is_right_click_pressed,
                          offset_before |-> view_offset,
                          viewport_before |-> viewport,
                          mouse_before |-> mouse_position,
                          zoom |-> view_zoom,
                          events_before |-> gui_events]
        /\ UNCHANGED <<view_zoom, follow_info, center_of_mass, auto_zoom, param_buffer,
                       fullscreen, wheels>>
        /\ UNCHANGED <<is_right_click_pressed, window_size, surface_size, render_size,
                       raw_screen_rect, ctx_screen_rect, last_right>>
        /\ UNCHANGED <<buildVars, pureVars, paceVars, simVars, appVars>>

NoEvent == [kind |-> "none"]

\* main.rs:110, 116-122 and follow.rs:140-144, physics.rs:54-58: the camera,
\* the render module's viewport, the follow toggles, the parameters
StartupUi ==
    /\ view_zoom = Fin(ZOOM_ONE)
    /\ view_offset = Vec(0, 0)
    /\ viewport = [offset |-> Vec(0, 0), zoom |-> Fin(ZOOM_ONE)]
    /\ follow_info = DefaultInfo
    /\ center_of_mass = TRUE
    /\ auto_zoom = FALSE
    /\ param_buffer = [delta_time |-> SECOND, gravitational_constant |-> "gravity"]
    /\ fullscreen = FALSE
    /\ gui_events = <<>>
    /\ last_event = NoEvent
    /\ wheels = 0

\* main.rs:57, 104-110, 113, 117-118 and gui.rs:14-27: the window's size and
\* what is sized after it at startup, the pointer
StartupWindow(size) ==
    /\ is_right_click_pressed = FALSE
    /\ mouse_position = Vec(0, 0)
    /\ window_size = size
    /\ surface_size = size
    /\ render_size = size
    /\ raw_screen_rect = NoRect
    /\ ctx_screen_rect = EguiDefaultRect
    /\ pointer_events = 0
    /\ last_right = "none"

\* what the user does in the GUI during one run of the panels
\* (main.rs:274-371): clicks of the checkboxes and of Regenerate, and the
\* values the two DragValue fields are left with
GuiInputs(paused, framerates, counts, regenerates, follow, capture) ==
    [paused_click : paused, framerate_edit : framerates, count_edit : counts,
     regenerate : regenerates, follow_click : follow, capture_click : capture]

NotRegenerated ==
    [fired |-> FALSE, crashed |-> FALSE, resized |-> FALSE, capacity |-> capacity,
     alloc |-> alloc, buffers |-> particle_buffers, num_particles |-> num_particles,
     seedings |-> seedings]

\* what the user does in the View panel (main.rs:332-352): the zoom the
\* slider is dragged to (NoSlide: not touched) and clicks of the two follow
\* toggles
ViewInputs(zoom_slides, center_clicks, auto_zoom_clicks) ==
    [zoom_slide : zoom_slides, center_click : center_clicks,
     auto_zoom_click : auto_zoom_clicks]
NoSlide == [k |-> "none", v |-> 0]
NoViewInput == [zoom_slide |-> NoSlide, center_click |-> FALSE, auto_zoom_click |-> FALSE]

\* a readback that succeeds with the summary of particles all at the origin
DefaultReadback == [poll |-> "done", panics |-> FALSE, map_ok |-> TRUE, summary |-> DefaultInfo]

\* A plausible slip: the GUI drawn into the render pass before the particles.
RenderPassStepsGuiFirst == <<"draw_gui", "draw_particles">>

\* render.rs:129-158 then main.rs:388: the render pass draws the particles
\* (RenderModule::begin_pass), then the GUI (egui_integration.render)
RenderPassSteps == <<"draw_particles", "draw_gui">>

\* A plausible slip: the follow and capture passes recorded before the GUI is
\* run, so with the flags as they were when the tick began.
EnabledAtRecordBeforeGui(at_start, after_gui) == at_start

\* main.rs:391, capture.rs:113, 125: the recording steps test the module's
\* enabled flag after egui_integration.run (main.rs:274-363) has returned
EnabledAtRecord(at_start, after_gui) == after_gui

\* main.rs:416, follow.rs:181, capture.rs:150: the readback steps test the
\* same field; nothing between the recording and the readback assigns it
EnabledAtReadback(at_start, after_gui) == after_gui

\* main.rs:254-441: the steps of one tick in the order the handler takes
\* them; follow and capture are the enabled flags as the recording steps find
\* them, follow_back and capture_back as the readback steps find them
TickSteps(dispatch, follow, capture, follow_back, capture_back, readback_panics) ==
    <<"force_off_check", "update_delta_time", "begin_frame", "get_current_texture",
      "create_encoder">>
    \o (IF dispatch THEN <<"physics_pass">> ELSE <<>>)
    \o <<"gui_run", "gui_pre_render", "begin_render_pass">>
    \o RenderPassSteps
    \o <<"end_render_pass">>
    \o (IF follow THEN <<"follow_pass", "follow_copy">> ELSE <<>>)
    \o (IF capture THEN <<"capture_pass", "capture_copy">> ELSE <<>>)
    \o <<"submit", "present">>
    \o (IF capture_back THEN <<"capture_readback">> ELSE <<>>)
    \o (IF follow_back THEN <<"follow_readback">> ELSE <<>>)
    \o (IF readback_panics THEN <<>> ELSE <<"end_frame">>)

\* cli.rs:26  default_value_t = 1.0/60.0
TIME_SCALE_DIVISOR == 60
\* cli.rs:22-27  args.time_scale, left at its default, in units of 1e-8
time_scale == SECOND \div TIME_SCALE_DIVISOR

\* physics.rs:183-185  PhysicsModule::update_delta_time: the first four bytes
\* of the parameter buffer are overwritten with dt
update_delta_time(param, dt) == [param EXCEPT !.delta_time = dt]

\* A plausible slip: the pass recorded in every tick, paused or not.
ShouldDispatchAlways(paused, pending) == TRUE

\* A plausible slip: the step flag ignored, only a running simulation
\* dispatched.
ShouldDispatchOnlyWhenRunning(paused, pending) == ~paused

\* main.rs:266  if !app_state.is_paused || app_state.step
ShouldDispatch(paused, pending) == ~paused \/ pending

\* main.rs:254-441  Event::AboutToWait, the idle tick, with the GUI inputs g
\* and v and the follow readback r
AboutToWaitWith(g, v, r) ==
    \E regen \in {IF g.regenerate THEN Regenerate(g.count_edit) ELSE NotRegenerated} :
    \E pass \in {physics_begin_pass(regen.buffers, current,
                                    num_particles \div PARTICLES_PER_WORKGROUP)} :
    \E readback \in {follow_readback(
                        IF g.follow_click THEN ~follow_enabled ELSE follow_enabled,
                        IF v.center_click THEN ~center_of_mass ELSE center_of_mass,
                        IF v.auto_zoom_click THEN ~auto_zoom ELSE auto_zoom,
                        follow_info,
                        [view_offset |-> view_offset,
                         view_zoom |-> IF v.zoom_slide = NoSlide THEN view_zoom
                                       ELSE v.zoom_slide,
                         viewport |-> viewport],
                        r)} :
    LET \* main.rs:255-258
        forced_off == capture_enabled /\ framerate = 0
        capture0 == capture_enabled /\ ~forced_off
        \* main.rs:260  update_delta_time(&queue, args.time_scale)
        param1 == update_delta_time(param_buffer, time_scale)
        \* main.rs:261
        begun == begin_frame(instants, pacer_current, now)
        \* main.rs:266-271: the pass is dispatched with
        \* num_particles / PARTICLES_PER_WORKGROUP workgroups
        dispatch == ShouldDispatch(is_paused, step)
        step1 == IF dispatch THEN FALSE ELSE step
        \* main.rs:274  egui_integration.run
        gui == gui_run(raw_screen_rect, gui_events, ctx_screen_rect)
        \* main.rs:278-281
        paused1 == IF g.paused_click THEN ~is_paused ELSE is_paused
        framerate1 == g.framerate_edit
        \* main.rs:303-329: regen
        \* main.rs:337-340: the slider writes app_state.view_zoom only
        zoom_after_gui == IF v.zoom_slide = NoSlide THEN view_zoom ELSE v.zoom_slide
        \* main.rs:347-352, 359
        follow1 == IF g.follow_click THEN ~follow_enabled ELSE follow_enabled
        center1 == IF v.center_click THEN ~center_of_mass ELSE center_of_mass
        auto_zoom1 == IF v.auto_zoom_click THEN ~auto_zoom ELSE auto_zoom
        capture1 == IF g.capture_click THEN ~capture0 ELSE capture0
        \* main.rs:408: the queue's writes are done first, then the command
        \* buffer runs; its physics pass is bound to the buffers the module
        \* owned when the pass was recorded
        effective == dispatch /\ ~regen.resized
        current1 == IF dispatch THEN pass.current ELSE current
        buffers1 == IF effective THEN pass.buffers ELSE regen.buffers
        fresh1 == IF effective THEN <<alloc, pass.written>>
                  ELSE IF regen.fired THEN <<regen.alloc, current1>>
                  ELSE fresh
        \* main.rs:381-386, 391-394, 398-403
        render_read == <<regen.alloc, current1>>
        follow_read == IF follow1 THEN {<<follow_bound, current1>>} ELSE {}
        capture_read == IF capture1 THEN {<<regen.alloc, current1>>} ELSE {}
        \* main.rs:413
        appended == IF capture1 THEN get_frame_bytes(texture_size) ELSE 0
        \* main.rs:440
        target == FrameTarget(framerate1)
        ended == end_frame(begun, pacer_current, now + TickWork, target, 0)
    IN  /\ ~crashed
        /\ ticks < MaxTicks
        /\ IF regen.crashed
           THEN /\ crashed' = TRUE
                /\ UNCHANGED <<is_paused, step, framerate, follow_enabled, follow_bound,
                               capture_enabled, texture_size, file_len, file_before,
                               captured_bytes, ticks, last>>
                /\ UNCHANGED <<paceVars, simVars, uiVars, windowVars>>
           ELSE /\ crashed' = readback.panic
                /\ is_paused' = paused1
                /\ step' = step1
                /\ framerate' = framerate1
                /\ num_particles' = regen.num_particles
                /\ new_num_particles' = g.count_edit
                /\ capacity' = regen.capacity
                /\ alloc' = regen.alloc
                /\ current' = current1
                /\ particle_buffers' = buffers1
                /\ seedings' = regen.seedings
                /\ fresh' = fresh1
                /\ follow_enabled' = follow1
                /\ capture_enabled' = capture1
                /\ file_len' = file_len + appended
                /\ captured_bytes' = captured_bytes
                       + (IF capture1 THEN texture_size[1] * texture_size[2] * 4 ELSE 0)
                /\ ticks' = ticks + 1
                /\ param_buffer' = param1
                /\ center_of_mass' = center1
                /\ auto_zoom' = auto_zoom1
                /\ follow_info' = readback.info
                /\ view_offset' = readback.view_offset
                /\ view_zoom' = readback.view_zoom
                /\ viewport' = readback.viewport
                /\ gui_events' = gui.gui_events
                /\ raw_screen_rect' = gui.raw_screen_rect
                /\ ctx_screen_rect' = gui.ctx_screen_rect
                /\ last' = [ran |-> TRUE,
                            delivered |-> gui.delivered,
                            pending_at_start |-> gui_events,
                            gui_rect |-> gui.ctx_screen_rect,
                            window |-> window_size,
                            measured |-> frametime(instants, pacer_current, now),
                            pressed_again |-> /\ last_event.kind = "key"
                                              /\ last_event.key = "KeyN"
                                              /\ last_event.step_before,
                            framerate_at_start |-> framerate,
                            framerate_after_gui |-> framerate1,
                            forced_off |-> forced_off,
                            capture_clicked |-> g.capture_click,
                            paused_at_start |-> is_paused,
                            step_at_start |-> step,
                            step_after_dispatch |-> step1,
                            dispatched |-> dispatch,
                            dispatch_input |-> pass.input,
                            dispatch_threads |-> pass.threads,
                            dispatch_count |-> num_particles,
                            current_before |-> current,
                            current_after |-> current1,
                            regenerate_clicked |-> g.regenerate,
                            count_at_click |-> g.count_edit,
                            gui_kept_sim |->
                                /\ regen.num_particles = num_particles
                                /\ regen.capacity = capacity
                                /\ regen.alloc = alloc
                                /\ regen.buffers = particle_buffers
                                /\ regen.seedings = seedings,
                            param_before_gui |-> param1,
                            param_after_gui |-> param1,
                            particles_kept |-> buffers1 = particle_buffers /\ regen.alloc = alloc,
                            regenerated |-> regen.fired,
                            resized |-> regen.resized,
                            render_read |-> render_read,
                            drawn |-> regen.num_particles,
                            follow_read |-> follow_read,
                            capture_read |-> capture_read,
                            fresh |-> fresh1,
                            captured |-> capture1,
                            size |-> texture_size,
                            appended |-> appended,
                            steps |-> TickSteps(dispatch,
                                                EnabledAtRecord(follow_enabled, follow1),
                                                EnabledAtRecord(capture0, capture1),
                                                EnabledAtReadback(follow_enabled, follow1),
                                                EnabledAtReadback(capture0, capture1),
                                                readback.panic),
                            follow_at_start |-> follow_enabled,
                            capture_at_start |-> capture0,
                            follow |-> [enabled |-> follow1,
                                        center_of_mass |-> center1,
                                        auto_zoom |-> auto_zoom1,
                                        readback |-> r,
                                        some |-> readback.some,
                                        pushed_offset |-> readback.pushed_offset,
                                        pushed_zoom |-> readback.pushed_zoom,
                                        info_before |-> follow_info,
                                        offset_before |-> view_offset,
                                        zoom_before |-> view_zoom,
                                        zoom_after_gui |-> zoom_after_gui,
                                        viewport_before |-> viewport]]
                /\ instants' = begun
                /\ pacer_current' = IF readback.panic THEN pacer_current ELSE ended.current
                /\ now' = IF readback.panic THEN now + TickWork ELSE ended.returned
                /\ frame_begin' = now
                /\ frames' = frames + 1
                /\ last_end' = IF readback.panic THEN last_end
                               ELSE EndRecord([tick |-> TRUE, framerate |-> framerate1],
                                              target, now + TickWork, now, ended)
                /\ last_event' = [kind |-> "tick"]
                /\ UNCHANGED <<in_frame, delays, follow_bound, texture_size, file_before,
                               fullscreen, wheels>>
                /\ UNCHANGED <<is_right_click_pressed, mouse_position, window_size,
                               surface_size, render_size, pointer_events, last_right>>
        /\ UNCHANGED <<buildVars, pureVars>>

\* a tick in which the View panel is not touched and the follow readback,
\* if any, succeeds
AboutToWait(g) == AboutToWaitWith(g, NoViewInput, DefaultReadback)

\* main.rs:52-126: the state the event loop starts in, for the arguments
\* --particles, --framerate, the window's size and the old file's length
Startup(particles, fr, size, before) ==
    LET rounded == buffer_particles(particles)
        ok == /\ ~rounded.panic
              /\ IsSmall(particles)
              /\ ~WritesPastEnd(U32ToNat(particles), U32ToNat(rounded.value))
        max_particles == IF ok THEN U32ToNat(rounded.value) ELSE 0
        n == IF ok THEN U32ToNat(particles) ELSE 0
    IN  /\ crashed = ~ok
        /\ is_paused = TRUE
        /\ step = FALSE
        /\ framerate = fr
        /\ num_particles = n
        /\ new_num_particles = particles
        /\ capacity = max_particles
        /\ alloc = 0
        /\ current = 0
        /\ particle_buffers = generate_particles(NewBuffers(max_particles), 0, n, 1)
        /\ seedings = 1
        /\ fresh = <<0, 0>>
        /\ follow_enabled = FALSE
        /\ follow_bound = 0
        /\ capture_enabled = FALSE
        /\ texture_size = size
        /\ file_before = before
        /\ file_len = created_file_len(before)
        /\ captured_bytes = 0
        /\ ticks = 0
        /\ last = NoTick
        /\ StartupUi
        /\ StartupWindow(size)

\* ------------------------------------------------------------ particle.rs: one run

\* Positions.  Cluster centres are in whole units, directions and magnitudes
\* in tenths, positions and offsets in hundredths; the arithmetic on these
\* grid points is exact (f32 rounding is left out).

\* particle.rs:26  position: chunk + dir * d
particle_position(chunk, dir, d) ==
    <<(chunk[1] * 100) + (dir[1] * d), (chunk[2] * 100) + (dir[2] * d)>>

\* particle.rs:20  the clusters the outer loop runs over, one centre drawn for each
NumClusters(n) == n \div CLUSTER_SIZE

\* A plausible slip: the stride applied to the cluster instead of the member.
WriteIndexStrideOnCluster(c, p, n) == p + (c * (n \div CLUSTER_SIZE))

\* particle.rs:32  let i = c + p * (num_particles as u64 / 128)
WriteIndex(c, p, n) == c + (p * (n \div CLUSTER_SIZE))

\* particle.rs:20-38: the write_buffer calls of one run, in the order of the
\* loops (member p of cluster c is call c * 128 + p + 1)
generate_writes(n) ==
    [k \in 1..(NumClusters(n) * CLUSTER_SIZE) |->
        LET c == (k - 1) \div CLUSTER_SIZE
            p == (k - 1) % CLUSTER_SIZE
        IN  [cluster |-> c, member |-> p, index |-> WriteIndex(c, p, n)]]

Chunks == {<<0, 0>>, <<-20, 20>>}
DirAxis == {-10, -5, 0, 5, 10}
Magnitudes == {0, 10, 25, 40}
GenCounts == {k * CLUSTER_SIZE : k \in 0..MaxClusters} \cup {100, 200, 300}

\* one particle drawn: a centre in [-20, 20]^2, a direction in [-1, 1]^2
\* and a magnitude in [0, 4]
CallParticlePosition ==
    \E chunk \in Chunks, dx \in DirAxis, dy \in DirAxis, d \in Magnitudes :
        /\ calc' = [op |-> "position", chunk |-> chunk, dir |-> <<dx, dy>>, d |-> d,
                    position |-> particle_position(chunk, <<dx, dy>>, d)]
        /\ UNCHANGED <<buildVars, paceVars, simVars, appVars, uiVars, windowVars>>

\* one run of generate_particles for n particles
CallGenerateWrites ==
    \E n \in GenCounts :
        /\ calc' = [op |-> "writes", n |-> n, centers |-> NumClusters(n),
                    writes |-> generate_writes(n)]
        /\ UNCHANGED <<buildVars, paceVars, simVars, appVars, uiVars, windowVars>>

\* ------------------------------------------------------------ specifications

\* the arguments of a default run: 256 particles, 60 frames per second
DefaultStartup == Startup(U32FromNat(256), 60, <<1, 1>>, 0)

\* the pure functions, called with every input of the bounded sets
InitPure == overflow_checks \in BOOLEAN /\ calc = NoCall /\ InitPacer /\ DefaultStartup
NextPure == CallMultipleOf \/ CallGetFrameRow
SpecPure == InitPure /\ [][NextPure]_vars

\* the frame pacer alone, driven as the tick drives it and with any target
InitPace == overflow_checks = TRUE /\ calc = NoCall /\ InitPacer /\ DefaultStartup
NextPace == PassTime \/ BeginFrame \/ TickEndFrame \/ CallEndFrame
SpecPace == InitPace /\ [][NextPace]_vars

\* the particle count of the command line and of the GUI, and Regenerate
RegenTick ==
    \E g \in GuiInputs({FALSE}, {framerate}, CountEdits \cup {new_num_particles},
                       BOOLEAN, {FALSE}, {FALSE}) : AboutToWait(g)
InitRegen ==
    /\ overflow_checks \in BOOLEAN
    /\ calc = NoCall
    /\ InitPacer
    /\ \E particles \in CliParticles : Startup(particles, 60, <<1, 2>>, 0)
NextRegen == RegenTick
SpecRegen == InitRegen /\ [][NextRegen]_vars

\* the simulation side of the event loop: pausing, stepping and following by
\* key or checkbox, and Regenerate with a changed or an unchanged count
SimCounts == {U32FromNat(200), U32FromNat(256), U32FromNat(512)}
SimKey == \E key \in {"Space", "KeyN"} : KeyboardInput(key)
SimTick ==
    \E g \in GuiInputs(BOOLEAN, {framerate}, {new_num_particles}, BOOLEAN, {FALSE},
                       {FALSE})
              \cup GuiInputs({FALSE}, {framerate}, {U32FromNat(512)}, {TRUE}, {TRUE},
                            {FALSE}) : AboutToWait(g)
InitSim ==
    /\ overflow_checks = TRUE
    /\ calc = NoCall
    /\ InitPacer
    /\ \E particles \in SimCounts : Startup(particles, 60, <<1, 2>>, 0)
NextSim == SimKey \/ SimTick
SpecSim == InitSim /\ [][NextSim]_vars

\* the capture side of the event loop: the framerate field, the Capture
\* checkbox and key, and the window's size
CaptureKey == KeyboardInput("KeyC")
CaptureTick ==
    \E g \in GuiInputs({FALSE}, Framerates, {new_num_particles}, {FALSE}, {FALSE},
                       BOOLEAN) : AboutToWait(g)
InitCapture ==
    /\ overflow_checks = TRUE
    /\ calc = NoCall
    /\ InitPacer
    /\ \E fr \in Framerates, size \in WindowSizes, before \in FileLensBefore :
           Startup(U32FromNat(256), fr, size, before)
NextCapture == Resized \/ CaptureKey \/ CaptureTick
SpecCapture == InitCapture /\ [][NextCapture]_vars

\* the particle generator alone: single particles and whole runs
InitGen == overflow_checks = TRUE /\ calc = NoCall /\ InitPacer /\ DefaultStartup
NextGen == CallParticlePosition \/ CallGenerateWrites
SpecGen == InitGen /\ [][NextGen]_vars

\* the camera: the mouse wheel, the follow key, and ticks in which the View
\* panel is used and the follow readback succeeds or fails
Summaries == {DefaultInfo, InfoOutput(Vec(-5, 7), Vec(-5, 7), Vec(-5, 8))}
FollowReadbacks ==
    Readbacks({"done"}, {FALSE}, {TRUE}, Summaries)
    \cup Readbacks({"done"}, {FALSE}, {FALSE}, {DefaultInfo})
    \cup Readbacks({"timeout"}, {TRUE}, {FALSE}, {DefaultInfo})
    \cup Readbacks({"timeout"}, {FALSE}, BOOLEAN, {DefaultInfo})
CameraViewInputs ==
    ViewInputs({NoSlide, Fin(ZOOM_ONE \div 2)}, {FALSE}, {FALSE})
    \cup ViewInputs({NoSlide}, {TRUE}, {FALSE})
    \cup ViewInputs({NoSlide}, {FALSE}, {TRUE})
CameraWheel == \E y \in WheelDeltas : MouseWheel(y)
CameraKey == KeyboardInput("KeyF")
CameraTick ==
    /\ ticks < MaxCameraTicks
    /\ \E g \in GuiInputs({FALSE}, {framerate}, {new_num_particles}, {FALSE}, {FALSE},
                          {FALSE}),
          v \in CameraViewInputs, r \in FollowReadbacks : AboutToWaitWith(g, v, r)
InitCamera == overflow_checks = TRUE /\ calc = NoCall /\ InitPacer /\ DefaultStartup
NextCamera == CameraWheel \/ CameraKey \/ CameraTick
SpecCamera == InitCamera /\ [][NextCamera]_vars

\* one frame after another: the shortcuts that switch the simulation, the
\* follow module and the capture module on and off, and idle ticks
FrameKey == \E key \in {"Space", "KeyF", "KeyC"} : KeyboardInput(key)
FrameTick ==
    \E g \in GuiInputs({FALSE}, {framerate}, {new_num_particles}, {FALSE}, {FALSE},
                       {FALSE}) : AboutToWait(g)
InitFrame == overflow_checks = TRUE /\ calc = NoCall /\ InitPacer /\ DefaultStartup
NextFrame == FrameKey \/ FrameTick
SpecFrame == InitFrame /\ [][NextFrame]_vars

\* recording and readback: the follow and capture modules switched by their
\* shortcuts between ticks and by their checkboxes inside a tick
ReadbackKey == \E key \in {"KeyF", "KeyC"} : KeyboardInput(key)
ReadbackTick ==
    \E g \in GuiInputs({FALSE}, {framerate}, {new_num_particles}, {FALSE}, BOOLEAN,
                       BOOLEAN) : AboutToWait(g)
InitReadback == overflow_checks = TRUE /\ calc = NoCall /\ InitPacer /\ DefaultStartup
NextReadback == ReadbackKey \/ ReadbackTick
SpecReadback == InitReadback /\ [][NextReadback]_vars

\* the keyboard: any key pressed or released, one event after another
\* between two idle ticks
AnyKey == \E state \in KeyStates, key \in KeyCodes : KeyboardEvent(state, key)
InitKeys == overflow_checks = TRUE /\ calc = NoCall /\ InitPacer /\ DefaultStartup
NextKeys == AnyKey
SpecKeys == InitKeys /\ [][NextKeys]_vars

\* the pointer: buttons pressed and released, the cursor moved
PointerButton == \E state \in KeyStates, button \in MouseButtons : MouseInput(state, button)
PointerMoved == \E position \in CursorPositions : CursorMoved(position)
InitPointer == overflow_checks = TRUE /\ calc = NoCall /\ InitPacer /\ DefaultStartup
NextPointer == PointerButton \/ PointerMoved
SpecPointer == InitPointer /\ [][NextPointer]_vars

\* the input of the GUI: keys that are no shortcut, buttons, cursor moves, and
\* the ticks whose GUI frame takes them
InputKeys == {<<"Pressed", "KeyA">>, <<"Released", "KeyA">>, <<"Released", "F11">>}
InputKey == \E e \in InputKeys : KeyboardEvent(e[1], e[2])
InputButton == \E button \in {"Left", "Other"} : MouseInput("Pressed", button)
InputMoved == CursorMoved(Vec(25, 50))
InputTick ==
    \E g \in GuiInputs({FALSE}, {framerate}, {new_num_particles}, {FALSE}, {FALSE},
                       {FALSE}) : AboutToWait(g)
InitInput == overflow_checks = TRUE /\ calc = NoCall /\ InitPacer /\ DefaultStartup
NextInput == InputKey \/ InputButton \/ InputMoved \/ InputTick
SpecInput == InitInput /\ [][NextInput]_vars

\* ====================================================================
\* Claims
\* ====================================================================

\* The padding that rounds value up to the next multiple, in exact arithmetic.
PadTo(value, multiple) == (multiple - U32Rem(value, multiple)) % multiple

\* The exact rounded value is a u32: value + pad <= 2^32 - 1.
RoundedFits(value, multiple) == U32SmallDiff(value, U32_MAX) >= PadTo(value, multiple)

\* r is the smallest number >= value that is a multiple of `multiple`.
IsRoundUp(value, multiple, r) ==
    /\ U32Leq(value, r)
    /\ U32Rem(r, multiple) = 0
    /\ U32SmallDiff(value, r) < multiple

\* C7 (as claimed): for every width >= 1, height >= 1 and row y < height, the
\* width*4 bytes get_frame writes for row y are the pixel bytes of texture
\* row y, the stride get_frame reads with being the stride the copy wrote with.
C7_RowIsTextureRow ==
    calc.op = "row" =>
        /\ calc.read_stride = calc.copy_stride
        /\ calc.bytes = TextureRow(calc.width, calc.y)

\* C8 (as claimed): multiple_of returns, for every u32 value and every
\* multiple > 0, the smallest r >= value with r mod multiple = 0.
C8_RoundsUpEveryU32 ==
    calc.op = "multiple_of" =>
        /\ ~calc.result.panic
        /\ IsRoundUp(calc.value, calc.multiple, calc.result.value)

\* C8 (amended): whenever the smallest multiple >= value is itself a u32,
\* multiple_of returns it without panicking; it returns value unchanged when
\* value is already a multiple; multiple_of(4096, 256) = 4096 and
\* multiple_of(4100, 256) = 4352.
C8_RoundsUpWhenItFits ==
    calc.op = "multiple_of" =>
        /\ RoundedFits(calc.value, calc.multiple) =>
              /\ ~calc.result.panic
              /\ IsRoundUp(calc.value, calc.multiple, calc.result.value)
        /\ U32Rem(calc.value, calc.multiple) = 0 => calc.result = Ok(calc.value)
        /\ (calc.value = U32FromNat(4096) /\ calc.multiple = 256)
              => calc.result = Ok(U32FromNat(4096))
        /\ (calc.value = U32FromNat(4100) /\ calc.multiple = 256)
              => calc.result = Ok(U32FromNat(4352))

\* a call that had to round up: multiple_of(4100, 256) returned 4352
C8_Witness ==
    /\ calc.op = "multiple_of"
    /\ calc.value = U32FromNat(4100)
    /\ calc.multiple = 256
    /\ U32Rem(calc.value, calc.multiple) # 0
    /\ calc.result = Ok(U32FromNat(4352))

\* a target end_frame must not pace on: zero (or less), not above machine
\* epsilon, or not finite
Unpaced(target) == target.k # "fin" \/ target.v <= F32_EPSILON_UNITS

\* C4 (as claimed): for every positive finite target, end_frame(target) does
\* not return before target - 0.0001 s have passed since the begin_frame() of
\* the same frame.
C4_EndFrameWaitsSinceBegin ==
    (last_end.called /\ last_end.target.k = "fin" /\ last_end.target.v > 0) =>
        last_end.returned - last_end.begun >= last_end.target.v - ACCURACY

\* C5: end_frame(target) neither sleeps nor spins (it returns at the instant
\* it was entered) when target is zero, non-finite or not greater than
\* machine epsilon, whatever the elapsed time; and a tick that ends with the
\* framerate 0 hands end_frame such a target (1/0, not finite), so it is not
\* paced.
C5_UncappedIsNeverPaced ==
    last_end.called =>
        /\ Unpaced(last_end.target) =>
              (~last_end.slept /\ last_end.returned = last_end.entered)
        /\ (last_end.by.tick /\ last_end.by.framerate = 0) =>
              /\ ~IsFinite(last_end.target)
              /\ ~last_end.slept
              /\ last_end.returned = last_end.entered

\* a tick with framerate 0 reached end_frame some time after its begin_frame,
\* and end_frame returned at once
C5_Witness ==
    /\ last_end.called
    /\ last_end.by.tick
    /\ last_end.by.framerate = 0
    /\ last_end.entered > last_end.begun
    /\ ~last_end.slept
    /\ last_end.returned = last_end.entered

\* C1 (as claimed): a tick that starts, or passes through its GUI step, with
\* the framerate 0 ends with capture disabled and appends no frame to the
\* file, however capture was enabled and however the framerate became 0.
C1_NoCaptureAtFramerateZero ==
    (last.ran /\ (last.framerate_at_start = 0 \/ last.framerate_after_gui = 0)) =>
        /\ ~capture_enabled
        /\ ~last.captured
        /\ last.appended = 0

\* C2 (as claimed): after each physics dispatch the current slot is the slot
\* that was not current immediately before the dispatch.
C2_CurrentAlternates ==
    (last.ran /\ last.dispatched) =>
        /\ last.current_after \in 0..1
        /\ last.current_after # last.current_before

\* C3 (as claimed): in every tick the render, follow and capture passes read
\* the same particle buffer, it is the buffer holding the most recent
\* particle state (written by the latest dispatch, or seeded by the generator
\* if none ran since), and it is not the slot the tick's dispatch took its
\* input from.
C3_ConsumersReadMostRecentSlot ==
    last.ran =>
        /\ \A r \in last.follow_read \cup last.capture_read : r = last.render_read
        /\ last.render_read = last.fresh
        /\ last.dispatched => last.render_read[2] # last.dispatch_input

\* C6: the length of frame_buffer.bin is the sum of width*height*4 over the
\* frames captured since startup: 0 after CaptureModule::new whatever file
\* existed, unchanged by a resize and by a tick with capture disabled, and
\* grown by exactly width*height*4 by a tick with capture enabled.
C6_FileLengthIsSumOfFrames ==
    /\ file_len = captured_bytes
    /\ ticks = 0 => file_len = 0
    /\ last.ran =>
          last.appended = IF last.captured THEN last.size[1] * last.size[2] * 4 ELSE 0

\* an old file was replaced and two frames of different sizes were captured,
\* the window resized between them
C6_Witness ==
    /\ file_before > 0
    /\ ticks = 2
    /\ last.captured
    /\ last.size = <<MaxWidth, MaxHeight>>
    /\ file_len = (1 * 2 * 4) + (MaxWidth * MaxHeight * 4)

\* C9: while the process runs, after startup and after every Regenerate, the
\* buffers' capacity is the smallest multiple of 256 that is >= num_particles
\* (so a multiple of 256 and >= the count simulated and drawn), and the
\* inline rounding gives for the edited count what multiple_of gives.  (A
\* count whose rounding overflows ends the process in either build.)
C9_CapacityIsRoundedCount ==
    ~crashed =>
        /\ IsRoundUp(U32FromNat(num_particles), PARTICLES_PER_WORKGROUP, U32FromNat(capacity))
        /\ capacity % PARTICLES_PER_WORKGROUP = 0
        /\ capacity >= num_particles
        /\ \A slot \in 0..1 : DOMAIN particle_buffers[slot] = 0..(capacity - 1)
        /\ buffer_particles(new_num_particles)
               = multiple_of(new_num_particles, PARTICLES_PER_WORKGROUP)

\* Regenerate changed the count to 300 and the buffers were resized to 512
C9_Witness ==
    /\ ~crashed
    /\ last.ran
    /\ last.regenerated
    /\ last.resized
    /\ num_particles = 300
    /\ capacity = 512

\* C10 (as claimed): right after a Regenerate with a count P > 0, each of the
\* P particles the render pass draws (indices 0..P-1 of the current buffer)
\* was written by that run of the generator with velocity zero, radius 0.1
\* and mass 0.1.
C10_DrawnParticlesAreGenerated ==
    (last.ran /\ last.regenerated /\ ~last.dispatched) =>
        \A i \in 0..(last.drawn - 1) :
            current_buffer(particle_buffers, current)[i] = GeneratedParticle(seedings)

\* C11 (as claimed): every generated particle lies within Euclidean distance
\* 4 of its cluster's centre, for every direction with both axes in [-1, 1]
\* and every magnitude in [0, 4].  (Distances in hundredths, squared.)
C11_ParticleWithinFourOfCentre ==
    calc.op = "position" =>
        LET ox == calc.position[1] - (calc.chunk[1] * 100)
            oy == calc.position[2] - (calc.chunk[2] * 100)
        IN  (ox * ox) + (oy * oy) <= (4 * 100) * (4 * 100)

\* C12: for every N divisible by 128 a run of generate_particles draws N/128
\* centres, writes exactly 128 particles for each, and its write indices
\* i = c + p*(N/128) hit every index below N exactly once and none at or
\* beyond N (nor, then, beyond the capacity N rounded up to 256).
C12_WritesAreABijection ==
    (calc.op = "writes" /\ calc.n % CLUSTER_SIZE = 0) =>
        LET w == calc.writes
            indices == {w[k].index : k \in DOMAIN w}
        IN  /\ calc.centers * CLUSTER_SIZE = calc.n
            /\ \A c \in 0..(calc.centers - 1) :
                   Cardinality({k \in DOMAIN w : w[k].cluster = c}) = CLUSTER_SIZE
            /\ \A k \in DOMAIN w : w[k].cluster \in 0..(calc.centers - 1)
            /\ Len(w) = calc.n
            /\ indices = 0..(calc.n - 1)
            /\ \A j, k \in DOMAIN w : w[j].index = w[k].index => j = k
            /\ \A k \in DOMAIN w :
                   w[k].index < U32ToNat(buffer_particles(U32FromNat(calc.n)).value)

\* a run for 256 particles: two clusters interleaved, member 1 of cluster 0
\* written at index 2 and member 127 of cluster 1 at index 255
C12_Witness ==
    /\ calc.op = "writes"
    /\ calc.n = 2 * CLUSTER_SIZE
    /\ calc.centers = 2
    /\ Len(calc.writes) = 2 * CLUSTER_SIZE
    /\ calc.writes[2].index = 2
    /\ calc.writes[2 * CLUSTER_SIZE].index = (2 * CLUSTER_SIZE) - 1

InRange(zoom) == IsFinite(zoom) /\ ZOOM_MIN <= zoom.v /\ zoom.v <= ZOOM_MAX

\* C13 (as claimed): after every mouse-wheel event the zoom, both
\* app_state.view_zoom and the value pushed to the render module, lies in
\* [0.01, 10.0], for every wheel delta and every prior zoom the program can
\* reach, those the auto-zoom set outside that range included.
C13_ZoomInRangeAfterWheel ==
    last_event.kind = "wheel" => (InRange(view_zoom) /\ viewport.zoom = view_zoom)

\* the wheel turned after the auto-zoom left an infinite zoom: NaN results
C13_WheelAfterInfiniteZoom ==
    /\ last_event.kind = "wheel"
    /\ last_event.zoom_before = Inf
    /\ IsNaN(view_zoom)
    /\ viewport.zoom = view_zoom

\* What does hold: the wheel leaves a zoom in [0.01, 10.0] whenever the zoom
\* before it was finite, even one the auto-zoom set outside the range.
C13_FiniteZoomIsClamped ==
    (last_event.kind = "wheel" /\ IsFinite(last_event.zoom_before)) =>
        (InRange(view_zoom) /\ viewport.zoom = view_zoom)

\* C14: a click on Regenerate while the edited count is 0 does nothing: the
\* particle count, the buffers and their capacity, the particle data and the
\* parameter uniform are after the tick's GUI step what they were before it.
C14_RegenerateAtZeroIsIgnored ==
    (last.ran /\ last.regenerate_clicked /\ last.count_at_click = U32FromNat(0)) =>
        /\ last.gui_kept_sim
        /\ ~last.regenerated
        /\ ~last.resized
        /\ last.param_after_gui = last.param_before_gui

\* Regenerate clicked at count 0 in a tick that did run
C14_Witness ==
    /\ last.ran
    /\ ~crashed
    /\ last.regenerate_clicked
    /\ last.count_at_click = U32FromNat(0)
    /\ num_particles > 0

RECURSIVE Occurrences(_, _)
Occurrences(s, x) ==
    IF s = <<>> THEN 0 ELSE (IF Head(s) = x THEN 1 ELSE 0) + Occurrences(Tail(s), x)

\* what every tick and every press of 'n' do to the step flag and the dispatch
StepAndDispatch ==
    /\ last.ran =>
        /\ last.dispatched <=> (~last.paused_at_start \/ last.step_at_start)
        /\ Occurrences(last.steps, "physics_pass") = (IF last.dispatched THEN 1 ELSE 0)
        /\ ~last.step_after_dispatch
        /\ last.pressed_again => last.dispatched
    /\ last_event.kind = "tick" => ~step
    /\ (last_event.kind = "key" /\ last_event.key = "KeyN") => step
    /\ (last_event.kind = "key" /\ last_event.key # "KeyN") => step = last_event.step_before

\* C15 (as claimed): a tick records exactly one physics dispatch iff the
\* simulation is not paused or a step is pending, the step flag is false
\* after the dispatch step of every tick, any number of presses of 'n' while
\* paused gives one dispatch on the next tick and none later, and the
\* particle data is unchanged by every tick that is paused with no step
\* pending.
C15_PausedTickKeepsParticles ==
    /\ StepAndDispatch
    /\ (last.ran /\ last.paused_at_start /\ ~last.step_at_start) => last.particles_kept

\* C15 (amended): the same, the particle data being unchanged by a tick that
\* is paused with no step pending unless Regenerate fires in its GUI step.
C15_PausedTickKeepsParticlesUnlessRegenerated ==
    /\ StepAndDispatch
    /\ (last.ran /\ last.paused_at_start /\ ~last.step_at_start /\ ~last.regenerated)
           => last.particles_kept

\* a paused tick right after a second press of 'n': one dispatch, the flag
\* cleared
C15_Witness ==
    /\ last.ran
    /\ last_event.kind = "tick"
    /\ last.paused_at_start
    /\ last.pressed_again
    /\ last.dispatched
    /\ Occurrences(last.steps, "physics_pass") = 1
    /\ ~step
    /\ ~crashed

\* the state right after an idle tick that ran to its end
AfterTick == last.ran /\ last_event.kind = "tick" /\ ~crashed

\* what the follow step leaves except for the zoom of a tick without
\* auto-zoom: the summary, the offset, the recomputed zoom
FollowStepButKeptZoom ==
    LET f == last.follow
        summary == f.readback.summary
    IN  /\ (f.enabled /\ f.some) =>
               /\ follow_info = summary
               /\ IF f.center_of_mass
                  THEN /\ view_offset = <<-summary.center_of_mass[1],
                                          -summary.center_of_mass[2]>>
                       /\ viewport.offset = view_offset
                       /\ f.pushed_offset
                  ELSE /\ view_offset = f.offset_before
                       /\ viewport.offset = f.viewport_before.offset
                       /\ ~f.pushed_offset
               /\ f.auto_zoom =>
                       /\ view_zoom = auto_zoom_of(summary.min_position,
                                                   summary.max_position)
                       /\ viewport.zoom = view_zoom
                       /\ f.pushed_zoom
        /\ ~f.enabled =>
               /\ follow_info = f.info_before
               /\ view_offset = f.offset_before
               /\ viewport.offset = f.viewport_before.offset

\* C16 (as claimed): at the end of a tick with follow enabled whose readback
\* returns a summary, the follow info is that summary; with center-of-mass on
\* view_offset is minus the summary's centre of mass and is pushed to the
\* render module, otherwise view_offset is unchanged by the tick; with
\* auto-zoom on view_zoom is recomputed from max - min and pushed, otherwise
\* view_zoom is unchanged by the tick; with follow disabled the follow step
\* changes neither the info nor view_offset nor the render offset.
C16_ZoomKeptByTickWithoutAutoZoom ==
    AfterTick =>
        /\ FollowStepButKeptZoom
        /\ (last.follow.enabled /\ last.follow.some /\ ~last.follow.auto_zoom) =>
               (view_zoom = last.follow.zoom_before /\ ~last.follow.pushed_zoom)

\* C16 (amended): the same, but without auto-zoom view_zoom is unchanged by
\* the tick's follow step: it is what the GUI step (the zoom slider) left.
C16_ZoomKeptByFollowStepWithoutAutoZoom ==
    AfterTick =>
        /\ FollowStepButKeptZoom
        /\ (last.follow.enabled /\ last.follow.some /\ ~last.follow.auto_zoom) =>
               (view_zoom = last.follow.zoom_after_gui /\ ~last.follow.pushed_zoom)

\* a tick with follow, center-of-mass and auto-zoom on and a summary with
\* centre of mass (-5, 7)/256 and an extent of 1/256
C16_Witness ==
    /\ AfterTick
    /\ last.follow.enabled
    /\ last.follow.some
    /\ last.follow.center_of_mass
    /\ last.follow.auto_zoom
    /\ follow_info = InfoOutput(Vec(-5, 7), Vec(-5, 7), Vec(-5, 8))
    /\ view_offset = Vec(5, -7)
    /\ viewport.offset = Vec(5, -7)
    /\ view_zoom = Fin(64 * ZOOM_ONE)
    /\ viewport.zoom = view_zoom

ReadbackFailed(r) == r.poll = "timeout" \/ ~r.map_ok

\* C17 (as claimed): when the follow readback fails, the map rejected or the
\* device poll timed out, get_data returns no data, the process keeps
\* running, and the follow info, the view offset and the zoom are what they
\* were before the readback.
C17_FailedReadbackIsNoData ==
    (last.ran /\ last_event.kind = "tick" /\ last.follow.enabled
        /\ ReadbackFailed(last.follow.readback)) =>
        /\ ~crashed
        /\ ~last.follow.some
        /\ follow_info = last.follow.info_before
        /\ view_offset = last.follow.offset_before
        /\ view_zoom = last.follow.zoom_after_gui
        /\ viewport = last.follow.viewport_before

\* a tick whose device poll timed out where panic_on_timeout panics
C17_PollTimeoutPanics ==
    /\ last.ran
    /\ last_event.kind = "tick"
    /\ last.follow.enabled
    /\ last.follow.readback.poll = "timeout"
    /\ crashed

\* What does hold: a rejected map after a completed poll is no data, and the
\* process runs on with the info, the offset and the zoom it had.
C17_RejectedMapIsNoData ==
    (last.ran /\ last_event.kind = "tick" /\ last.follow.enabled
        /\ last.follow.readback.poll = "done" /\ ~last.follow.readback.map_ok) =>
        /\ ~crashed
        /\ ~last.follow.some
        /\ follow_info = last.follow.info_before
        /\ view_offset = last.follow.offset_before
        /\ view_zoom = last.follow.zoom_after_gui
        /\ viewport = last.follow.viewport_before

\* C18 (as claimed): begin_frame() records the present instant and advances
\* the pacer's index, so that frametime() called between begin_frame() and
\* end_frame() is the time passed since the begin_frame() of the same frame.
C18_FrametimeSinceThisFramesBegin ==
    in_frame =>
        /\ instants[pacer_current] = frame_begin
        /\ frametime(instants, pacer_current, now) = now - frame_begin

\* inside a frame, frametime() still counts from an instant before the
\* frame's begin_frame(): the index was not advanced
C18_FrametimeCountsFromEarlierInstant ==
    /\ in_frame
    /\ instants[next(pacer_current)] = frame_begin
    /\ instants[pacer_current] < frame_begin
    /\ frametime(instants, pacer_current, now) > now - frame_begin

Has(s, x) == \E i \in DOMAIN s : s[i] = x
Pos(s, x) == CHOOSE i \in DOMAIN s : s[i] = x
\* x and y both occur in s, x first
InOrder(s, x, y) == Has(s, x) /\ Has(s, y) /\ Pos(s, x) < Pos(s, y)

\* C19: in every tick one command encoder is created and it is submitted
\* once; the physics dispatch, if any, is recorded before the render pass;
\* inside the render pass the particles are drawn before the GUI; the follow
\* pass and copy, then the capture pass and copy, come after the render pass
\* and before the submit; the frame is presented after the submit; the
\* capture readback, then the follow readback, come after the submit; and
\* end_frame is the last step.
C19_OneEncoderInFrameOrder ==
    (last.ran /\ ~crashed) =>
        LET s == last.steps
            follow == last.follow.enabled
        IN  /\ \A i, j \in DOMAIN s : s[i] = s[j] => i = j
            /\ InOrder(s, "create_encoder", "submit")
            /\ Has(s, "physics_pass") <=> last.dispatched
            /\ last.dispatched =>
                   /\ InOrder(s, "create_encoder", "physics_pass")
                   /\ InOrder(s, "physics_pass", "begin_render_pass")
            /\ InOrder(s, "begin_render_pass", "draw_particles")
            /\ InOrder(s, "draw_particles", "draw_gui")
            /\ InOrder(s, "draw_gui", "end_render_pass")
            /\ InOrder(s, "end_render_pass", "submit")
            /\ Has(s, "follow_pass") <=> follow
            /\ Has(s, "follow_readback") <=> follow
            /\ follow =>
                   /\ InOrder(s, "end_render_pass", "follow_pass")
                   /\ InOrder(s, "follow_pass", "follow_copy")
                   /\ InOrder(s, "follow_copy", "submit")
                   /\ InOrder(s, "submit", "follow_readback")
            /\ Has(s, "capture_pass") <=> last.captured
            /\ Has(s, "capture_readback") <=> last.captured
            /\ last.captured =>
                   /\ InOrder(s, "end_render_pass", "capture_pass")
                   /\ InOrder(s, "capture_pass", "capture_copy")
                   /\ InOrder(s, "capture_copy", "submit")
                   /\ InOrder(s, "submit", "capture_readback")
            /\ (follow /\ last.captured) =>
                   /\ InOrder(s, "follow_copy", "capture_pass")
                   /\ InOrder(s, "capture_readback", "follow_readback")
            /\ InOrder(s, "submit", "present")
            /\ s[Len(s)] = "end_frame"

\* a tick with the simulation running and both follow and capture enabled
C19_Witness ==
    /\ last.ran
    /\ ~crashed
    /\ last.dispatched
    /\ last.follow.enabled
    /\ last.captured
    /\ Has(last.steps, "physics_pass")
    /\ Has(last.steps, "follow_copy")
    /\ Has(last.steps, "capture_copy")
    /\ last.steps[Len(last.steps)] = "end_frame"

ShortcutKeys == {"Space", "F11", "KeyN", "KeyF", "KeyC"}

\* C20: a keyboard event is forwarded to the GUI iff it matches no entry of
\* the shortcut table: a press of Space, F11, N, F or C is handled (it
\* toggles pause, fullscreen, follow or capture, or requests a step) and is
\* never forwarded; every other keyboard event, a release of those keys
\* included, changes none of these and is forwarded exactly once.
C20_ForwardedIffNotShortcut ==
    last_event.kind = "key" =>
        LET e == last_event
            shortcut == e.state = "Pressed" /\ e.key \in ShortcutKeys
            toggled(k, before, after) ==
                IF shortcut /\ e.key = k THEN after = ~before ELSE after = before
        IN  /\ e.handled <=> shortcut
            /\ e.key_event_calls = (IF shortcut THEN 0 ELSE 1)
            /\ toggled("Space", e.paused_before, is_paused)
            /\ toggled("F11", e.fullscreen_before, fullscreen)
            /\ toggled("KeyF", e.follow_before, follow_enabled)
            /\ toggled("KeyC", e.capture_before, capture_enabled)
            /\ step = (IF shortcut /\ e.key = "KeyN" THEN TRUE ELSE e.step_before)

\* the release of Space after its press: the press toggled the pause and was
\* kept from the GUI, the release is forwarded and the GUI gets its key event
C20_Witness ==
    /\ last_event.kind = "key"
    /\ last_event.state = "Released"
    /\ last_event.key = "Space"
    /\ ~last_event.handled
    /\ last_event.key_event_calls = 1
    /\ ~is_paused
    /\ is_paused = last_event.paused_before
    /\ gui_events = <<[type |-> "Key", key |-> "Space", pressed |-> FALSE]>>

\* C21: the panning flag is true exactly when the latest right-button event
\* was a press (false at startup and after a release); no right-button event
\* is forwarded to the GUI layer, and every event of another button is
\* forwarded to it, once, with the stored cursor position.
C21_PanningFlagFollowsRightButton ==
    /\ is_right_click_pressed <=> last_right = "Pressed"
    /\ last_event.kind = "mouse" =>
           LET e == last_event
           IN  IF e.button = "Right"
               THEN /\ e.mouse_event_calls = 0
                    /\ gui_events = e.events_before
                    /\ is_right_click_pressed <=> e.state = "Pressed"
               ELSE /\ e.mouse_event_calls = 1
                    /\ e.position = mouse_position
                    /\ is_right_click_pressed = e.flag_before
                    /\ e.button \in EguiButtons =>
                           gui_events = Append(e.events_before,
                               [type |-> "PointerButton", pos |-> mouse_position,
                                button |-> e.button, pressed |-> e.state = "Pressed"])

\* the left button pressed at the cursor's position (25, 50) while the right
\* button is held
C21_Witness ==
    /\ last_event.kind = "mouse"
    /\ last_event.button = "Left"
    /\ last_event.state = "Pressed"
    /\ last_event.mouse_event_calls = 1
    /\ is_right_click_pressed
    /\ last_right = "Pressed"
    /\ mouse_position = Vec(25, 50)
    /\ gui_events[Len(gui_events)].pos = Vec(25, 50)

\* C22: a cursor-move event changes view_offset and the render module's
\* offset only while the panning flag is set, then by the travel from the
\* stored position, the position of the preceding cursor event; in both
\* cases the new position is forwarded to the GUI layer as pointer motion
\* and becomes the stored position.
C22_CursorPansOnlyWhilePanning ==
    last_event.kind = "cursor" =>
        LET e == last_event
            travel == <<e.position[1] - e.mouse_before[1], e.position[2] - e.mouse_before[2]>>
        IN  /\ mouse_position = e.position
            /\ gui_events = Append(e.events_before,
                                   [type |-> "PointerMoved", pos |-> e.position])
            /\ ~e.panning => (view_offset = e.offset_before /\ viewport = e.viewport_before)
            /\ e.panning =>
                   /\ viewport.offset = view_offset
                   /\ viewport.zoom = e.viewport_before.zoom
                   /\ e.zoom = Fin(ZOOM_ONE) =>
                          /\ 100 * (view_offset[1] - e.offset_before[1]) = 128 * travel[1]
                          /\ 100 * (view_offset[2] - e.offset_before[2]) = -128 * travel[2]

\* the second step of a pan: from (25, 50) to (100, 25) at zoom 1.0 the
\* offset moves by 75 * 0.005 and 25 * 0.005
C22_Witness ==
    /\ last_event.kind = "cursor"
    /\ last_event.panning
    /\ last_event.mouse_before = Vec(25, 50)
    /\ last_event.position = Vec(100, 25)
    /\ last_event.offset_before = Vec(32, -64)
    /\ view_offset = Vec(128, -32)
    /\ viewport.offset = Vec(128, -32)

\* the rectangle the GUI's next frame will work with
GuiRect == IF raw_screen_rect = NoRect THEN ctx_screen_rect ELSE raw_screen_rect

\* C23 (as claimed): after startup and after any sequence of resize events
\* the surface configuration, the render module's screen size, the capture
\* module's texture and the GUI layer's screen rectangle all have the
\* window's latest pixel size, and every GUI frame starts with the GUI's
\* rectangle at the size the window has then.
C23_AllSizedAfterTheWindow ==
    ~crashed =>
        /\ surface_size = window_size
        /\ render_size = window_size
        /\ texture_size = window_size
        /\ GuiRect = window_size
        /\ last.ran => last.gui_rect = last.window

\* the first GUI frame of a window that was never resized: the context works
\* with its own default rectangle, not with the window's size
C23_FirstFrameWithDefaultRect ==
    /\ last.ran
    /\ ~crashed
    /\ last.gui_rect = EguiDefaultRect
    /\ last.gui_rect # last.window
    /\ surface_size = window_size

\* What does hold: the surface, the render module and the capture texture
\* always have the window's size, and so has the GUI's rectangle from the
\* first resize event on, in every later frame too.
C23_SizedFromTheFirstResize ==
    ~crashed =>
        /\ surface_size = window_size
        /\ render_size = window_size
        /\ texture_size = window_size
        /\ GuiRect # EguiDefaultRect => GuiRect = window_size
        /\ (last.ran /\ last.gui_rect # EguiDefaultRect) => last.gui_rect = last.window

\* C24 (as claimed): on every idle tick the delta_time written to the physics
\* parameter buffer is the frame's measured delta time multiplied by the
\* time scale, so ticks with different measured durations push different
\* values.
C24_DeltaTimeIsMeasuredTimesScale ==
    last.ran => last.param_after_gui.delta_time = last.measured \div TIME_SCALE_DIVISOR

\* the first tick, no time measured yet: the value written is the time
\* scale, 1/60, as in every later tick
C24_TimeScaleWrittenInFirstTick ==
    /\ last.ran
    /\ last.measured = 0
    /\ last.param_after_gui.delta_time = time_scale
    /\ param_buffer.delta_time = time_scale

\* What does hold: every tick writes the time scale itself, whatever the
\* frame's duration was.
C24_DeltaTimeIsTheTimeScale ==
    last.ran => (last.param_after_gui.delta_time = time_scale
                 /\ param_buffer.delta_time = time_scale)

\* C25 (as claimed): at the start of every render pass the zoom and the
\* offset in the render module's viewport uniform are app_state.view_zoom
\* and app_state.view_offset: the wheel, the right-drag, the zoom slider and
\* the follow step all push what they set before the next render pass.
C25_ViewportIsTheCameraAtRenderPass ==
    last.ran =>
        /\ last.follow.viewport_before.zoom = last.follow.zoom_after_gui
        /\ last.follow.viewport_before.offset = last.follow.offset_before

\* a tick in which the zoom slider was dragged to 0.5: the render pass runs
\* with the zoom 1.0 in the uniform
C25_SliderZoomNotPushed ==
    /\ last.ran
    /\ last.follow.zoom_after_gui = Fin(ZOOM_ONE \div 2)
    /\ last.follow.viewport_before.zoom = Fin(ZOOM_ONE)
    /\ ~last.follow.pushed_zoom
    /\ view_zoom = Fin(ZOOM_ONE \div 2)
    /\ viewport.zoom = Fin(ZOOM_ONE)

\* What does hold: the offset in the uniform is app_state.view_offset at
\* every render pass.
C25_ViewportOffsetIsTheCameraOffset ==
    last.ran => last.follow.viewport_before.offset = last.follow.offset_before

\* C26 (as claimed): whatever Regenerate actions changed the particle count
\* and so reallocated the physics buffers, the buffers bound in the follow
\* module's bind groups are the ones the physics module owns, and every
\* follow pass scans the physics module's current buffer.
C26_FollowScansLiveBuffers ==
    ~crashed =>
        /\ follow_bound = alloc
        /\ last.ran => \A r \in last.follow_read : r = last.render_read

\* a follow pass after a Regenerate that resized the buffers: it scans the
\* pair allocated at startup while the render pass reads the new pair
C26_FollowPassOnDiscardedBuffers ==
    /\ ~crashed
    /\ last.ran
    /\ last.resized
    /\ last.follow_read # {}
    /\ \A r \in last.follow_read : r[1] = 0 /\ last.render_read[1] > 0
    /\ alloc > follow_bound

\* C27 (as claimed): for every configurable particle count N > 0, the
\* threads of one physics dispatch, 256 * (N / 256) with integer division,
\* are at least N, so the dispatch advances every particle that is drawn.
C27_DispatchCoversEveryParticle ==
    (last.ran /\ last.dispatched) => last.dispatch_threads >= last.dispatch_count

\* a dispatch for 200 particles: zero workgroups, no particle advanced, and
\* the render pass of the same tick draws all 200
C27_NoThreadForTwoHundred ==
    /\ last.ran
    /\ last.dispatched
    /\ last.dispatch_count = 200
    /\ last.dispatch_threads = 0
    /\ last.drawn = 200
    /\ last.particles_kept

\* C28: in every tick a staging buffer is read back only if its copy was
\* recorded in that tick's command buffer and submitted before: get_data
\* maps iff the follow pass and copy_buffer_to_buffer were recorded,
\* get_frame maps (and appends to the file) iff the capture pass and
\* copy_texture_to_buffer were recorded; the flags the recording steps find
\* are the flags the readback steps find.
C28_ReadbackOnlyOfRecordedCopy ==
    last.ran =>
        LET s == last.steps
        IN  /\ Has(s, "follow_readback") <=> (Has(s, "follow_pass") /\ Has(s, "follow_copy"))
            /\ Has(s, "capture_readback")
                   <=> (Has(s, "capture_pass") /\ Has(s, "capture_copy"))
            /\ Has(s, "follow_readback") =>
                   /\ InOrder(s, "follow_pass", "follow_copy")
                   /\ InOrder(s, "follow_copy", "submit")
                   /\ InOrder(s, "submit", "follow_readback")
            /\ Has(s, "capture_readback") =>
                   /\ InOrder(s, "capture_pass", "capture_copy")
                   /\ InOrder(s, "capture_copy", "submit")
                   /\ InOrder(s, "submit", "capture_readback")
            /\ (last.appended > 0) <=> Has(s, "capture_copy")
            /\ (last.follow.some) => Has(s, "follow_copy")
            /\ \A name \in {"follow_pass", "follow_copy", "follow_readback", "capture_pass",
                            "capture_copy", "capture_readback", "submit"} :
                   Occurrences(s, name) <= 1

\* a tick whose GUI step switched the follow module on and the capture module
\* off: the follow copy is recorded and read back, the capture copy neither
C28_Witness ==
    /\ last.ran
    /\ ~last.follow_at_start
    /\ last.capture_at_start
    /\ last.follow.enabled
    /\ ~last.captured
    /\ Has(last.steps, "follow_copy")
    /\ Has(last.steps, "follow_readback")
    /\ ~Has(last.steps, "capture_copy")
    /\ ~Has(last.steps, "capture_readback")
    /\ last.appended = 0

\* the latest event is an input event that the orchestrator handed to the
\* GUI layer
C29_Forwarded ==
    \/ last_event.kind = "key" /\ ~last_event.handled
    \/ last_event.kind = "mouse" /\ last_event.mouse_event_calls = 1
    \/ last_event.kind = "cursor"

\* C29 (as claimed): every input event forwarded to the GUI layer is queued
\* behind the events that arrived before it, none is dropped; the next GUI
\* frame is given the queued events in arrival order and leaves none queued,
\* so that no later frame is given them again.
C29_EveryForwardedEventDelivered ==
    /\ C29_Forwarded =>
           /\ Len(gui_events) = Len(last_event.events_before) + 1
           /\ SubSeq(gui_events, 1, Len(last_event.events_before)) = last_event.events_before
    /\ (last.ran /\ last_event.kind = "tick") =>
           /\ last.delivered = last.pending_at_start
           /\ gui_events = <<>>

\* the latest event is a forwarded event the toolkit has an event for: a
\* named key it knows, a pressed character key (its text), one of the buttons
\* it knows, a cursor move
C29_Translated ==
    \/ /\ last_event.kind = "key"
       /\ ~last_event.handled
       /\ \/ last_event.key \in EguiNamedKeys
          \/ last_event.key \notin NamedKeys /\ last_event.state = "Pressed"
    \/ /\ last_event.kind = "mouse"
       /\ last_event.mouse_event_calls = 1
       /\ last_event.button \in EguiButtons
    \/ last_event.kind = "cursor"

\* the toolkit's event for the latest event
C29_Event ==
    IF last_event.kind = "key"
    THEN IF last_event.key \in NamedKeys
         THEN [type |-> "Key", key |-> last_event.key,
               pressed |-> last_event.state = "Pressed"]
         ELSE [type |-> "Text", key |-> last_event.key, pressed |-> TRUE]
    ELSE IF last_event.kind = "mouse"
    THEN [type |-> "PointerButton", pos |-> last_event.position,
          button |-> last_event.button, pressed |-> last_event.state = "Pressed"]
    ELSE [type |-> "PointerMoved", pos |-> last_event.position]

\* C29 (amended): every forwarded event the toolkit has an event for is queued
\* once, behind the events queued before it; a forwarded event it has none for
\* (the release of a character key, a named key it does not know, a button it
\* does not know) queues nothing; the next GUI frame is given the queued
\* events in arrival order and leaves none queued, so none is given to a
\* later frame again and a frame with no new input is given none.
C29_TranslatedEventsDeliveredOnce ==
    /\ last_event.kind \in {"key", "mouse", "cursor"} =>
           gui_events = IF C29_Translated
                        THEN Append(last_event.events_before, C29_Event)
                        ELSE last_event.events_before
    /\ (last.ran /\ last_event.kind = "tick") =>
           /\ last.delivered = last.pending_at_start
           /\ gui_events = <<>>
           /\ Len(last.delivered) <= MaxGuiEvents

\* the first tick: its GUI frame was given a text, a button press and a
\* cursor move, in the order they arrived, and none of them is queued any more
C29_Witness ==
    /\ last.ran
    /\ last_event.kind = "tick"
    /\ ticks = 1
    /\ Len(last.delivered) = 3
    /\ last.delivered[1].type = "Text"
    /\ last.delivered[2].type = "PointerButton"
    /\ last.delivered[3].type = "PointerMoved"
    /\ gui_events = <<>>

\* paused with no step pending
C30_Idle == is_paused = TRUE /\ step = FALSE

\* the step is one of the three ways out of the idle state: a press of Space
\* or of 'n', or a tick whose GUI step cleared the Paused checkbox
C30_Released ==
    \/ /\ ticks' = ticks
       /\ last_event'.kind = "key"
       /\ last_event'.state = "Pressed"
       /\ last_event'.key \in {"Space", "KeyN"}
    \/ /\ ticks' = ticks + 1
       /\ ~is_paused'

\* C30 (as claimed): the application starts paused with no step pending and
\* stays so until Space or 'n' is pressed or the Paused checkbox is cleared;
\* no tick begun in that state records a physics dispatch, and each leaves
\* the particle data as it was.
C30_SeededDataUntouchedUntilReleased ==
    /\ C30_Idle
    /\ [][C30_Idle =>
             /\ C30_Idle' \/ C30_Released
             /\ ticks' = ticks + 1 =>
                    /\ ~last'.dispatched
                    /\ ~Has(last'.steps, "physics_pass")
                    /\ particle_buffers' = particle_buffers]_vars

\* C30 (amended): the same, a tick begun in that state leaving the particle
\* data as it was unless Regenerate fires in its GUI step.
C30_NoDispatchUntilReleased ==
    /\ C30_Idle
    /\ [][C30_Idle =>
             /\ C30_Idle' \/ C30_Released
             /\ ticks' = ticks + 1 =>
                    /\ ~last'.dispatched
                    /\ ~Has(last'.steps, "physics_pass")
                    /\ last'.regenerated \/ particle_buffers' = particle_buffers]_vars

\* two ticks and no key: still paused, no step pending, neither a dispatch
\* nor a Regenerate, every particle as the generator seeded it at startup
C30_Witness ==
    /\ ~crashed
    /\ ticks = MaxTicks
    /\ last.ran
    /\ last_event.kind = "tick"
    /\ is_paused
    /\ ~step
    /\ last.paused_at_start
    /\ ~last.step_at_start
    /\ ~last.dispatched
    /\ last.particles_kept
    /\ seedings = 1
    /\ \A i \in 0..(num_particles - 1) :
           current_buffer(particle_buffers, current)[i] = GeneratedParticle(seedings)

====
